---- MODULE Spec2Model ----
(***************************************************************************)
(* A model of EarningsCrush's earnings-calendar cache                      *)
(* (src/earnings_cache.py): the cache file, the clock, the provider's      *)
(* responses and the two public operations fetch_earnings_calendar_cached  *)
(* and get_next_earnings_date_cached.                                      *)
(*                                                                         *)
(* Strings are sequences of character codes, so that str.upper() and the   *)
(* ordering of key strings are computed, not assumed.  Dates are day       *)
(* ordinals: strftime('%Y-%m-%d') is injective and order-preserving on     *)
(* them, so a key string "SYM|from|to" is kept as <<codes of SYM, from,    *)
(* to>> and compared the way Python compares the joined strings.           *)
(***************************************************************************)
EXTENDS Integers, Sequences, FiniteSets, TLC

VARIABLES
    file,   \* the cache file CACHE_FILE: [kind, entries]
    perm,   \* what the file system allows on CACHE_FILE: [readable, writable]
    now,    \* the wall clock, time.time(), in seconds
    todo,   \* lookups the running scan has still to make
    last,   \* what the latest lookup did and returned
    scan    \* the scanners' computation in hand: its inputs, then its results

vars == <<file, perm, now, todo, last, scan>>

\* the state of the earnings-calendar cache
cacheVars == <<file, perm, now, todo, last>>

----------------------------------------------------------------------------
(* Program constants *)

\* CACHE_TTL_SECONDS, the default of EARNINGS_CALENDAR_CACHE_TTL_SECONDS
CACHE_TTL_SECONDS == 21600
\* `if len(entries) > 4000`
PRUNE_THRESHOLD == 4000
\* `items[:500]`
PRUNE_COUNT == 500

(* Bounds of the model *)

\* the clock takes the values CACHE_TTL_SECONDS * 1 .. CACHE_TTL_SECONDS * MaxTicks
MaxTicks == 3
\* lookups one scan makes
MaxCalls == 2
\* the highest underlying price, in dollars
MaxPrice == 420

----------------------------------------------------------------------------
(* Strings, symbols, dates *)

CH_BAR == 124  \* ord('|')

SYM_f  == <<102>>       \* "f"
SYM_F  == <<70>>        \* "F"
SYM_GA == <<71, 65>>    \* "GA", the symbol of the entries a long-lived file holds

Symbols == {SYM_f, SYM_F}

\* str.upper() on ASCII codes
upper(s) == [i \in 1..Len(s) |-> IF s[i] \in 97..122 THEN s[i] - 32 ELSE s[i]]

\* Python's str `<`: code point by code point, a proper prefix first
StrLess(a, b) ==
    \/ Len(a) < Len(b) /\ \A j \in 1..Len(a) : a[j] = b[j]
    \/ \E i \in 1..Len(a) :
          /\ i <= Len(b)
          /\ \A j \in 1..(i - 1) : a[j] = b[j]
          /\ a[i] < b[i]

\* a key that keeps the symbol as it was passed
_cache_key_AsGiven(symbol, from_date, to_date) == <<symbol, from_date, to_date>>

\* f"{symbol.upper()}|{from_date:%Y-%m-%d}|{to_date:%Y-%m-%d}"
_cache_key(symbol, from_date, to_date) == <<upper(symbol), from_date, to_date>>

\* `<` on two key strings: the symbol part up to and including its '|', then
\* the two fixed-width dates
KeyLess(k1, k2) ==
    IF k1[1] = k2[1]
    THEN k1[2] < k2[2] \/ (k1[2] = k2[2] /\ k1[3] < k2[3])
    ELSE StrLess(Append(k1[1], CH_BAR), Append(k2[1], CH_BAR))

\* `<` on the (ts, key) tuples that items.sort() orders
ItemLess(a, b) == a[1] < b[1] \/ (a[1] = b[1] /\ KeyLess(a[2], b[2]))

\* date.today() on the clock `t`
Today(t) == (t \div 86400) + 1

----------------------------------------------------------------------------
(* The provider: events and HTTP responses *)

NoDate == 0   \* an event without a 'date' (absent, null or empty)

\* one element of the provider's earningsCalendar list
Event(d, h) == [isdict |-> TRUE, date |-> d, hour |-> h]
\* an element that is not a JSON object (a string, a number)
Junk == [isdict |-> FALSE, date |-> NoDate, hour |-> ""]

IsDict(x) == x.isdict

Resp(kind, status, body, cal_kind, cal) ==
    [kind |-> kind, status |-> status, body |-> body, cal_kind |-> cal_kind, cal |-> cal]

OkResp(cal) == Resp("http", 200, "object", "list", cal)

\* what requests.get(url, timeout=15) can do
Responses ==
    { Resp("transport_error", 0, "", "", <<>>),       \* requests.get raises
      Resp("http", 500, "", "", <<>>),                \* non-success status
      Resp("http", 200, "invalid_json", "", <<>>),    \* resp.json() raises
      Resp("http", 200, "array", "", <<>>),           \* a JSON list: no .get
      Resp("http", 200, "object", "absent", <<>>),    \* no earningsCalendar
      OkResp(<<Event(5, "bmo"), Event(3, "amc")>>),
      OkResp(<<Junk, Event(3, "amc")>>),
      OkResp(<<Event(NoDate, ""), Event(3, "amc")>>) }

\* the kind of provider failure a response is, "none" for a well-formed answer
FailureKind(resp) ==
    IF resp.kind = "transport_error" THEN "transport"
    ELSE IF resp.status # 200 THEN "status"
    ELSE IF resp.body \in {"invalid_json", "array"} \/ resp.cal_kind = "number"
    THEN "malformed"
    ELSE "none"

Raise == [raised |-> TRUE, data |-> <<>>]
Return(data) == [raised |-> FALSE, data |-> data]

\* fetch_earnings_calendar: the list of events, or the exception it lets through
fetch_earnings_calendar(resp) ==
    IF resp.kind = "transport_error" THEN Raise               \* requests.get
    ELSE IF resp.status # 200 THEN Return(<<>>)
    ELSE IF resp.body = "invalid_json" THEN Raise             \* resp.json()
    ELSE IF resp.body = "falsy" THEN Return(<<>>)             \* `or {}`
    ELSE IF resp.body = "array" THEN Raise                    \* list.get
    ELSE IF resp.cal_kind = "absent" THEN Return(<<>>)        \* `or []`
    ELSE IF resp.cal_kind = "number" THEN Raise               \* for x in 7
    ELSE Return(SelectSeq(resp.cal, IsDict))

----------------------------------------------------------------------------
(* The cache file *)

NoEntries == [k \in {} |-> 0]

\* A value of the file's "entries" object: [shape, checked_at, data], where
\* shape is "entry" for {"checked_at": <number>, "data": <list>} and names
\* what is wrong otherwise: "no_checked_at" (absent, null or 0),
\* "text_checked_at" (a text float() rejects), "data_not_list", "not_object".

\* an entry the code writes: {"checked_at": now, "data": data}
NewEntry(t, data) == [shape |-> "entry", checked_at |-> t, data |-> data]

\* isinstance(entry, dict)
IsObject(entry) == entry.shape # "not_object"

AbsentFile == [kind |-> "absent", entries |-> NoEntries]
StoreFile(entries) == [kind |-> "store", entries |-> entries]

\* _load_cache: the file's entries, or the empty store
_load_cache(f, p) ==
    IF f.kind = "absent" THEN NoEntries
    ELSE IF ~p.readable THEN NoEntries       \* open() raises
    ELSE IF f.kind # "store" THEN NoEntries  \* json.load raises, or wrong shape
    ELSE f.entries

\* a save that keeps what the file holds next to what it writes
_save_cache_Merge(f, p, entries) ==
    IF p.writable THEN StoreFile(entries @@ _load_cache(f, p)) ELSE f

\* _save_cache: the file after json.dump, or the file as it was
_save_cache(f, p, entries) ==
    IF p.writable THEN StoreFile(entries) ELSE f

----------------------------------------------------------------------------
(* Requests *)

Req(symbol, from_date, to_date) ==
    [symbol |-> symbol, from_date |-> from_date, to_date |-> to_date]

\* the (from_date, to_date) ranges asked for: a week, the two weeks that
\* contain it, and a week that overlaps it
Ranges == { <<1, 8>>, <<1, 15>>, <<2, 9>> }

Requests ==
    { Req(SYM_F, r[1], r[2]) : r \in Ranges } \cup { Req(SYM_f, 1, 8) }

\* days_ahead of get_next_earnings_date_cached
DaysAhead == { 7, 14 }

\* the clock values of the model
Times == { CACHE_TTL_SECONDS * i : i \in 1..MaxTicks }

\* the keys the lookups of the model use
RequestKeys ==
    { _cache_key(q.symbol, q.from_date, q.to_date) : q \in Requests }
        \cup { _cache_key(s, Today(t), Today(t) + d) :
                 s \in Symbols, d \in DaysAhead, t \in Times }

\* the entries of a file that many earlier scans have filled: key number i
FillerKey(i) == <<SYM_GA, i, i + 7>>

RECURSIVE SetToSeq(_)
SetToSeq(S) ==
    IF S = {} THEN <<>>
    ELSE LET x == CHOOSE y \in S : TRUE IN <<x>> \o SetToSeq(S \ {x})

\* every key a file of the model can hold, in one fixed order
KeyUniverse ==
    [i \in 1..PRUNE_THRESHOLD |-> FillerKey(i)] \o SetToSeq(RequestKeys)

----------------------------------------------------------------------------
(* fetch_earnings_calendar_cached *)

\* a hit test that expires an entry at the ttl, not after it
IsFresh_Strict(checked_at, t, ttl_seconds) ==
    checked_at > 0 /\ (t - checked_at) < ttl_seconds

\* `checked_at > 0 and (now - checked_at) <= ttl_seconds`
IsFresh(checked_at, t, ttl_seconds) ==
    checked_at > 0 /\ (t - checked_at) <= ttl_seconds

\* `float(entry.get("checked_at") or 0.0)` of the hit test: a number, or the
\* ValueError of a text that is no number
CheckedAt(entry) ==
    IF entry.shape = "text_checked_at" THEN [raised |-> TRUE, value |-> 0]
    ELSE IF entry.shape = "no_checked_at" THEN [raised |-> FALSE, value |-> 0]
    ELSE [raised |-> FALSE, value |-> entry.checked_at]

\* what a hit returns: the stored list without its non-object elements
HitData(entry) ==
    IF entry.shape # "data_not_list" THEN SelectSeq(entry.data, IsDict) ELSE <<>>

\* ts of the pruning loop: 0.0 unless the value is an object whose
\* checked_at float() accepts
PruneTs(val) ==
    IF val.shape \in {"not_object", "no_checked_at", "text_checked_at"}
    THEN 0
    ELSE val.checked_at

\* items: one (ts, key) per entry
Items(entries) ==
    LET ks == SelectSeq(KeyUniverse, LAMBDA k : k \in DOMAIN entries)
    IN  [j \in 1..Len(ks) |-> <<PruneTs(entries[ks[j]]), ks[j]>>]

\* a sort by key alone
SortItems_ByKey(items) == SortSeq(items, LAMBDA a, b : KeyLess(a[2], b[2]))

\* items.sort()
SortItems(items) == SortSeq(items, ItemLess)

\* a pruning that cuts the store down to PRUNE_THRESHOLD - PRUNE_COUNT entries
Oldest_ToThreshold(items) ==
    SubSeq(items, 1, Len(items) - (PRUNE_THRESHOLD - PRUNE_COUNT))

\* items[:500]
Oldest(items) ==
    SubSeq(items, 1, IF Len(items) < PRUNE_COUNT THEN Len(items) ELSE PRUNE_COUNT)

\* the pruning block: the (ts, key) items popped, in the order of the sorted
\* list; none at or under the threshold
Evicted(entries) ==
    IF Cardinality(DOMAIN entries) > PRUNE_THRESHOLD
    THEN Oldest(SortItems(Items(entries)))
    ELSE <<>>

\* entries[k] = {...}
Put(entries, k, e) == (k :> e) @@ entries

\* entries.pop(key, None) for every popped item
Pop(entries, items) ==
    LET gone == { items[j][2] : j \in 1..Len(items) }
    IN  IF gone = {} THEN entries ELSE [x \in DOMAIN entries \ gone |-> entries[x]]

Outcome(raised, hit, provider_calls, data, f, saved, evicted) ==
    [raised |-> raised, hit |-> hit, provider_calls |-> provider_calls,
     data |-> data, file |-> f, saved |-> saved, evicted |-> evicted]

\* the failure of the provider call an outcome made, "none" when it made none
Failure(r, resp) == IF r.provider_calls = 0 THEN "none" ELSE FailureKind(resp)

\* the value of the one-element set S (binds a value that is used twice, so
\* that it is computed once)
The(S) == CHOOSE x \in S : TRUE

\* pop the items `ev`, save, return `data`
PopAndSave(f, p, data, put, ev) ==
    Outcome(FALSE, FALSE, 1, data, _save_cache(f, p, Pop(put, ev)), p.writable, ev)

\* the pruning block on the entries `put`, then save and return
PruneAndSave(f, p, data, put) ==
    The({ PopAndSave(f, p, data, put, ev) : ev \in { Evicted(put) } })

\* the miss path: fetch, store, prune, save, return
FetchAndStore(f, p, t, entries, k, resp) ==
    LET got == fetch_earnings_calendar(resp)
    IN  IF got.raised
        THEN Outcome(TRUE, FALSE, 1, <<>>, f, FALSE, <<>>)
        ELSE The({ PruneAndSave(f, p, got.data, put) :
                       put \in { Put(entries, k, NewEntry(t, got.data)) } })

\* a hit path that renews the entry it serves (a sliding expiry)
ServeHit_Touch(f, p, t, entries, k) ==
    Outcome(FALSE, TRUE, 0, HitData(entries[k]),
            _save_cache(f, p, Put(entries, k, [entries[k] EXCEPT !.checked_at = t])),
            p.writable, <<>>)

\* the hit path: return the stored list; nothing is written
ServeHit(f, p, t, entries, k) ==
    Outcome(FALSE, TRUE, 0, HitData(entries[k]), f, FALSE, <<>>)

fetch_earnings_calendar_cached(f, p, t, symbol, from_date, to_date, ttl_seconds, resp) ==
    LET k == _cache_key(symbol, from_date, to_date)
        entries == _load_cache(f, p)
    IN  IF k \in DOMAIN entries /\ IsObject(entries[k])
        THEN LET checked_at == CheckedAt(entries[k])
             IN  IF checked_at.raised
                 THEN Outcome(TRUE, FALSE, 0, <<>>, f, FALSE, <<>>)
                 ELSE IF IsFresh(checked_at.value, t, ttl_seconds)
                 THEN ServeHit(f, p, t, entries, k)
                 ELSE FetchAndStore(f, p, t, entries, k, resp)
        ELSE FetchAndStore(f, p, t, entries, k, resp)

----------------------------------------------------------------------------
(* get_next_earnings_date_cached *)

\* the date of cal[0], or None (NoDate) for an empty list or a first event
\* without a date
FirstDate(cal) ==
    IF cal = <<>> THEN NoDate ELSE cal[1].date

get_next_earnings_date_cached(f, p, t, symbol, days_ahead, resp) ==
    LET today == Today(t)
        r == fetch_earnings_calendar_cached(f, p, t, symbol, today, today + days_ahead,
                                            CACHE_TTL_SECONDS, resp)
    IN  r @@ [date |-> IF r.raised THEN NoDate ELSE FirstDate(r.data)]

----------------------------------------------------------------------------
(* State machine *)

NoCall ==
    [op |-> "none", symbol |-> <<>>, from_date |-> 0, to_date |-> 0, at |-> 0,
     failure |-> "none", raised |-> FALSE,
     hit |-> FALSE, provider_calls |-> 0, data |-> <<>>, date |-> NoDate,
     saved |-> FALSE, evicted |-> <<>>]

\* the latest lookup: its arguments, the clock value it read, what it did
Record(op, symbol, from_date, to_date, t, r, d, failure) ==
    [op |-> op, symbol |-> symbol, from_date |-> from_date, to_date |-> to_date,
     at |-> t, failure |-> failure, raised |-> r.raised,
     hit |-> r.hit, provider_calls |-> r.provider_calls, data |-> r.data,
     date |-> d, saved |-> r.saved, evicted |-> r.evicted]

Healthy == [readable |-> TRUE, writable |-> TRUE]

\* no scanner computation in hand
NoScan == [op |-> "none"]

\* the file when a scan starts: none yet, or what an earlier scan's lookup
\* of F left at the first clock value
InitFiles ==
    { AbsentFile }
        \cup { StoreFile([k \in {_cache_key(SYM_F, 1, 8)} |-> NewEntry(CACHE_TTL_SECONDS, d)]) :
                 d \in { <<>>, <<Event(5, "bmo"), Event(3, "amc")>> } }

Init ==
    /\ file \in InitFiles
    /\ perm = Healthy
    /\ now \in Times
    /\ todo = MaxCalls
    /\ last = NoCall
    /\ scan = NoScan

\* one call of fetch_earnings_calendar_cached with the default ttl
Fetch(q, resp) ==
    /\ todo > 0
    /\ \E r \in { fetch_earnings_calendar_cached(file, perm, now, q.symbol, q.from_date,
                                                  q.to_date, CACHE_TTL_SECONDS, resp) } :
           /\ file' = r.file
           /\ last' = Record("fetch", q.symbol, q.from_date, q.to_date, now, r, NoDate,
                             Failure(r, resp))
    /\ todo' = todo - 1
    /\ UNCHANGED <<perm, now, scan>>

\* one call of get_next_earnings_date_cached
NextDate(symbol, days_ahead, resp) ==
    /\ todo > 0
    /\ \E r \in { get_next_earnings_date_cached(file, perm, now, symbol, days_ahead, resp) } :
           /\ file' = r.file
           /\ last' = Record("next_date", symbol, Today(now), Today(now) + days_ahead,
                             now, r, r.date, Failure(r, resp))
    /\ todo' = todo - 1
    /\ UNCHANGED <<perm, now, scan>>

\* time passes before a lookup
ClockAdvance ==
    /\ todo > 0
    /\ \E t \in Times : t > now /\ now' = t
    /\ UNCHANGED <<file, perm, todo, last, scan>>

\* the wall clock is set back (time.time() is not monotonic)
ClockStepBack ==
    /\ todo > 0
    /\ \E t \in Times : t < now /\ now' = t
    /\ UNCHANGED <<file, perm, todo, last, scan>>

Next ==
    \/ \E q \in Requests, resp \in Responses : Fetch(q, resp)
    \/ \E s \in Symbols, d \in DaysAhead, resp \in Responses : NextDate(s, d, resp)
    \/ ClockAdvance
    \/ ClockStepBack

Spec == Init /\ [][Next]_vars

----------------------------------------------------------------------------
(* A scan that starts on a file at, or one under, the pruning threshold *)

\* an entry without checked_at, one whose checked_at is a text that is no
\* number, and one that is not an object: what a hand-edited file may hold
BadEntry(shape, t, data) == [shape |-> shape, checked_at |-> t, data |-> data]
EntryNoCheckedAt == BadEntry("no_checked_at", 0, <<>>)
EntryTextCheckedAt == BadEntry("text_checked_at", 0, <<>>)
EntryNotObject == BadEntry("not_object", 0, <<>>)

\* the entry of filler key number i under each age pattern
FillerEntry(pattern, i) ==
    IF pattern = "spread"
    THEN NewEntry(CACHE_TTL_SECONDS * (1 + (i % MaxTicks)), <<>>)
    ELSE IF pattern = "latest"
    THEN NewEntry(CACHE_TTL_SECONDS * MaxTicks, <<>>)
    ELSE IF i = 1 THEN EntryNoCheckedAt
    ELSE IF i = 2 THEN EntryTextCheckedAt
    ELSE IF i = 3 THEN EntryNotObject
    ELSE IF i <= 200 THEN NewEntry(CACHE_TTL_SECONDS, <<>>)
    ELSE NewEntry(CACHE_TTL_SECONDS * 2, <<>>)

\* a file of n entries: earlier lookups of F for (1, 8) and (1, 15), and
\* n - 2 filler entries
BigFile(pattern, n) ==
    LET own == { _cache_key(SYM_F, 1, 8), _cache_key(SYM_F, 1, 15) }
    IN  StoreFile([k \in own \cup { FillerKey(i) : i \in 1..(n - 2) } |->
                      IF k \in own
                      THEN NewEntry(CACHE_TTL_SECONDS, <<Event(3, "amc")>>)
                      ELSE FillerEntry(pattern, k[2])])

InitPrune ==
    /\ file \in { BigFile(pt, PRUNE_THRESHOLD) : pt \in {"spread", "latest", "mixed"} }
                 \cup { BigFile("spread", PRUNE_THRESHOLD - 1) }
    /\ perm = Healthy
    /\ now \in Times
    /\ todo = 1
    /\ last = NoCall
    /\ scan = NoScan

SpecPrune == InitPrune /\ [][Next]_vars

----------------------------------------------------------------------------
(* A scan that starts on a damaged cache file *)

\* a file that exists and holds no store: nothing at all, text that is not
\* JSON, a JSON value that is not an object, an object without an "entries"
\* object
DamagedFile(kind) == [kind |-> kind, entries |-> NoEntries]

\* a store whose entry for F|1|8 has the wrong shape, next to a sound entry
BadEntryFile(bad) ==
    StoreFile((_cache_key(SYM_F, 1, 8) :> bad)
                  @@ (_cache_key(SYM_F, 1, 15) :> NewEntry(CACHE_TTL_SECONDS, <<>>)))

CorruptFiles ==
    { DamagedFile(kind) : kind \in {"empty", "invalid_json", "not_object", "no_entries"} }
        \cup { BadEntryFile(bad) :
                 bad \in { EntryNoCheckedAt, EntryTextCheckedAt, EntryNotObject,
                           BadEntry("data_not_list", CACHE_TTL_SECONDS, <<>>) } }

InitCorrupt ==
    /\ file \in CorruptFiles
    /\ perm = Healthy
    /\ now \in Times
    /\ todo = MaxCalls
    /\ last = NoCall
    /\ scan = NoScan

SpecCorrupt == InitCorrupt /\ [][Next]_vars

----------------------------------------------------------------------------
(* A scan whose cache file cannot be read, or cannot be written *)

FaultyPerms ==
    { [readable |-> FALSE, writable |-> TRUE],
      [readable |-> TRUE, writable |-> FALSE],
      [readable |-> FALSE, writable |-> FALSE] }

InitStorage ==
    /\ file \in InitFiles
    /\ perm \in FaultyPerms
    /\ now \in Times
    /\ todo = MaxCalls
    /\ last = NoCall
    /\ scan = NoScan

SpecStorage == InitStorage /\ [][Next]_vars

----------------------------------------------------------------------------
(* The scanners' computations.  Each starts from inputs drawn in InitScan    *)
(* (scan.stage = "input") and one step applies the code to them              *)
(* (scan.stage = "done").  Prices are in cents.                              *)

\* the cache at rest while a scanner computes
CacheIdle ==
    /\ file = AbsentFile
    /\ perm = Healthy
    /\ now = CACHE_TTL_SECONDS
    /\ todo = 0
    /\ last = NoCall

\* a rounding that truncates, int(n / d)
PyRound_Floor(n, d) == n \div d

\* Python's round(n / d) for n >= 0, d > 0: to the nearest integer, a half to
\* the even neighbour
PyRound(n, d) ==
    LET q == n \div d
        r == n % d
    IN  IF 2 * r < d THEN q
        ELSE IF 2 * r > d THEN q + 1
        ELSE IF q % 2 = 0 THEN q ELSE q + 1

\* the bands and steps of get_atm_strike, in cents
BAND_50 == 5000
BAND_100 == 10000
BAND_200 == 20000
STEP_2_5 == 250
STEP_5 == 500
STEP_10 == 1000

\* get_atm_strike of run_preearnings_straddle_scan_ib.py
get_atm_strike(price) ==
    IF price < BAND_50 THEN PyRound(price, STEP_2_5) * STEP_2_5
    ELSE IF price < BAND_200 THEN PyRound(price, STEP_5) * STEP_5
    ELSE PyRound(price, STEP_10) * STEP_10

\* get_atm_strike of run_earnings_scan_ib.py, with its own 100-200 branch
get_atm_strike_scan_ib(price) ==
    IF price < BAND_50 THEN PyRound(price, STEP_2_5) * STEP_2_5
    ELSE IF price < BAND_100 THEN PyRound(price, STEP_5) * STEP_5
    ELSE IF price < BAND_200 THEN PyRound(price, STEP_5) * STEP_5
    ELSE PyRound(price, STEP_10) * STEP_10

\* underlying prices: every quarter dollar up to MaxPrice, and prices next to
\* the band limits and off the quarter grid
Prices ==
    { 25 * i : i \in 1..(4 * MaxPrice) }
        \cup { 1, 124, 126, 4200, 4999, 5001, 9999, 10001, 18743, 19999, 20001, 40200 }

StrikeInputs == { [op |-> "atm_strike", stage |-> "input", price |-> p] : p \in Prices }

\* both scanners round the underlying price to a strike
AtmStrike ==
    /\ scan.op = "atm_strike" /\ scan.stage = "input"
    /\ scan' = [op |-> "atm_strike", stage |-> "done", price |-> scan.price,
                strike |-> get_atm_strike(scan.price),
                strike_scan_ib |-> get_atm_strike_scan_ib(scan.price)]
    /\ UNCHANGED cacheVars

----------------------------------------------------------------------------
(* Calendar dates.  An expiration string 'YYYYMMDD' is the number YYYYMMDD;  *)
(* a date is its day number, 0 for 2024-01-01 (a Monday).                    *)

\* the first year of the calendar, a leap year that starts on a Monday
YEAR_0 == 2024

IsLeap(y) == y % 4 = 0 /\ (y % 100 # 0 \/ y % 400 = 0)

DaysInMonth(y, m) ==
    IF m = 2 THEN (IF IsLeap(y) THEN 29 ELSE 28)
    ELSE IF m \in {4, 6, 9, 11} THEN 30 ELSE 31

RECURSIVE DaysBeforeMonth(_, _)
DaysBeforeMonth(y, m) ==
    IF m = 1 THEN 0 ELSE DaysBeforeMonth(y, m - 1) + DaysInMonth(y, m - 1)

RECURSIVE DaysBeforeYear(_)
DaysBeforeYear(y) ==
    IF y <= YEAR_0 THEN 0
    ELSE DaysBeforeYear(y - 1) + (IF IsLeap(y - 1) THEN 366 ELSE 365)

\* datetime.strptime(exp_str, '%Y%m%d').date(): the day number, or the
\* ValueError of a text that names no date
Strptime(exp_str) ==
    LET y == exp_str \div 10000
        m == (exp_str \div 100) % 100
        d == exp_str % 100
    IN  IF y >= YEAR_0 /\ m \in 1..12 /\ d >= 1 /\ d <= DaysInMonth(y, m)
        THEN [raised |-> FALSE, day |-> DaysBeforeYear(y) + DaysBeforeMonth(y, m) + d - 1]
        ELSE [raised |-> TRUE, day |-> 0]

\* date.weekday(): Monday is 0
Weekday(day) == day % 7

FRIDAY == 4

\* is_monthly_expiration: `exp.weekday() == 4 and 15 <= exp.day <= 21`
is_monthly_expiration(expiry_yyyymmdd) ==
    LET exp == Strptime(expiry_yyyymmdd)
    IN  ~exp.raised /\ Weekday(exp.day) = FRIDAY
            /\ 15 <= expiry_yyyymmdd % 100 /\ expiry_yyyymmdd % 100 <= 21

----------------------------------------------------------------------------
(* pick_straddle_expiration_after_earnings *)

\* `dte > days_until_earnings + 90`
MAX_DTE_AFTER == 90

NoPick == [found |-> FALSE, exp |-> 0, dte |-> 0]
Pick(c) == [found |-> TRUE, exp |-> c[1], dte |-> c[2]]

\* the first element of a list sorted by dte with list.sort (stable): the
\* first of the elements with the least dte
FirstByDte(cs) ==
    LET i == CHOOSE i \in 1..Len(cs) :
                 /\ \A j \in 1..Len(cs) : cs[i][2] <= cs[j][2]
                 /\ \A j \in 1..(i - 1) : cs[j][2] > cs[i][2]
    IN  cs[i]

\* the (exp_str, dte) candidates of the loop, in the order of `expirations`
Candidates(expirations, today, days_until_earnings) ==
    LET keep(e) ==
            LET exp == Strptime(e)
            IN  /\ ~exp.raised
                /\ ~(exp.day - today < days_until_earnings + 1)
                /\ ~(exp.day - today > days_until_earnings + MAX_DTE_AFTER)
        kept == SelectSeq(expirations, keep)
    IN  [i \in 1..Len(kept) |-> <<kept[i], Strptime(kept[i]).day - today>>]

\* a pick that takes the nearest candidate, monthly or not
pick_straddle_expiration_Nearest(expirations, today, days_until_earnings) ==
    LET candidates == Candidates(expirations, today, days_until_earnings)
    IN  IF candidates = <<>> THEN NoPick ELSE Pick(FirstByDte(candidates))

pick_straddle_expiration_after_earnings(expirations, today, days_until_earnings) ==
    LET candidates == Candidates(expirations, today, days_until_earnings)
        monthlies == SelectSeq(candidates, LAMBDA c : is_monthly_expiration(c[1]))
    IN  IF candidates = <<>> THEN NoPick
        ELSE IF monthlies # <<>> THEN Pick(FirstByDte(monthlies))
        ELSE Pick(FirstByDte(candidates))

\* the expiration strings a chain may list: weekly and monthly Fridays, a
\* Wednesday in the third week, a text that names no date (February 30), and
\* dates before today and far after it
ExpirationPool ==
    { 20240315, 20240405, 20240412, 20240417, 20240419, 20240230,
      20240426, 20240517, 20240621, 20250117 }

\* sorted(chains[0].expirations): the strings of a set, ascending
SortedSeq(S) == SortSeq(SetToSeq(S), LAMBDA a, b : a < b)

\* date.today() of the scanners: 2024-03-18, 2024-04-01, 2024-04-15
ScanDays == { 77, 91, 105 }

DaysUntil == { 0, 3, 17 }

PickInputs ==
    { [op |-> "pick_expiration", stage |-> "input", expirations |-> SortedSeq(S),
       today |-> t, days_until_earnings |-> du] :
          S \in SUBSET ExpirationPool, t \in ScanDays, du \in DaysUntil }

PickExpiration ==
    /\ scan.op = "pick_expiration" /\ scan.stage = "input"
    /\ scan' = [scan EXCEPT !.stage = "done"]
                  @@ [picked |-> pick_straddle_expiration_after_earnings(
                                     scan.expirations, scan.today, scan.days_until_earnings)]
    /\ UNCHANGED cacheVars

----------------------------------------------------------------------------
(* run_earnings_scan_ib: one ticker of the front/back calendar scan.  Implied *)
(* volatilities are in basis points (6000 is 0.60, or 60%), option prices in  *)
(* cents; 0 stands for a value IB did not give (None).                       *)

\* what ib.reqSecDefOptParams gave: kind "ok" with the expirations of the
\* first chain, "none" for no chain, "error" for an exception
Chain(kind, expirations) == [kind |-> kind, expirations |-> expirations]

\* get_option_chain_ib: the (exp_str, dte) matches in ascending order of
\* expiration; the empty list for no chain and for any exception, the
\* ValueError of an expiration that names no date included
get_option_chain_ib(chain, today, days_target_min, days_target_max) ==
    IF chain.kind # "ok" THEN <<>>
    ELSE IF \E i \in 1..Len(chain.expirations) : Strptime(chain.expirations[i]).raised
    THEN <<>>
    ELSE LET match(e) ==
                 /\ days_target_min <= Strptime(e).day - today
                 /\ Strptime(e).day - today <= days_target_max
             kept == SelectSeq(chain.expirations, match)
         IN  [i \in 1..Len(kept) |-> <<kept[i], Strptime(kept[i]).day - today>>]

\* the defaults for a missing implied volatility: 0.5 front, 0.4 back
DEFAULT_FRONT_IV == 5000
DEFAULT_BACK_IV == 4000

\* the windows of the two legs
FRONT_BEFORE == 3
FRONT_AFTER == 7
BACK_MIN_GAP == 25
BACK_MAX_GAP == 35

\* the thresholds of the recommendation
IV_RECOMMENDED == 6000
IV_CONSIDER == 5000
DAYS_RECOMMENDED == 5
DAYS_CONSIDER == 7

\* `iv_slope_pct > pct` for iv_slope_pct = (front_iv / back_iv - 1) * 100 if
\* back_iv > 0 else 0
SlopePctOver(front_iv, back_iv, pct) ==
    IF back_iv > 0 THEN front_iv * 100 > (100 + pct) * back_iv ELSE 0 > pct

\* a recommendation that does not look at the term structure first
Recommendation_NoSlopeTest(front_iv, back_iv, days_until) ==
    IF front_iv > IV_RECOMMENDED /\ days_until <= DAYS_RECOMMENDED
    THEN "RECOMMENDED"
    ELSE IF front_iv > IV_CONSIDER /\ days_until <= DAYS_CONSIDER
    THEN "CONSIDER"
    ELSE "AVOID"

\* the recommendation logic
Recommendation(front_iv, back_iv, days_until) ==
    IF ~(front_iv > back_iv) THEN "AVOID"
    ELSE IF front_iv > IV_RECOMMENDED /\ days_until <= DAYS_RECOMMENDED
              /\ SlopePctOver(front_iv, back_iv, 10)
    THEN "RECOMMENDED"
    ELSE IF front_iv > IV_CONSIDER /\ days_until <= DAYS_CONSIDER
              /\ SlopePctOver(front_iv, back_iv, 5)
    THEN "CONSIDER"
    ELSE "AVOID"

Max(a, b) == IF a >= b THEN a ELSE b

\* a ticker that yields no opportunity record: the `continue` taken
Skipped(why) ==
    [record |-> FALSE, skip |-> why, front_exp |-> 0, front_dte |-> 0, back_exp |-> 0,
     back_dte |-> 0, front_iv |-> 0, back_iv |-> 0, recommendation |-> ""]

\* a front leg that takes the last match of its window
FrontLeg_Last(front_options) == front_options[Len(front_options)]

\* `front_options[0]`
FrontLeg(front_options) == front_options[1]

\* the body of the loop over upcoming_earnings for one ticker
scan_ticker_ib(in) ==
    IF ~(in.price > 0) THEN Skipped("price")
    ELSE LET front_options ==
                 get_option_chain_ib(in.chain, in.today,
                                     Max(1, in.days_until - FRONT_BEFORE),
                                     in.days_until + FRONT_AFTER)
         IN  IF front_options = <<>> THEN Skipped("front")
             ELSE LET front == FrontLeg(front_options)
                      back_options ==
                          get_option_chain_ib(in.back_chain, in.today,
                                              front[2] + BACK_MIN_GAP, front[2] + BACK_MAX_GAP)
                  IN  IF back_options = <<>> THEN Skipped("back")
                      ELSE IF in.front_price = 0 \/ in.back_price = 0
                      THEN Skipped("option_price")
                      ELSE LET front_iv == IF in.front_iv = 0 THEN DEFAULT_FRONT_IV
                                           ELSE in.front_iv
                               back_iv == IF in.back_iv = 0 THEN DEFAULT_BACK_IV
                                          ELSE in.back_iv
                           IN  [record |-> TRUE, skip |-> "none",
                                front_exp |-> front[1], front_dte |-> front[2],
                                back_exp |-> back_options[1][1],
                                back_dte |-> back_options[1][2],
                                front_iv |-> front_iv, back_iv |-> back_iv,
                                recommendation |->
                                    Recommendation(front_iv, back_iv, in.days_until)]

\* the expirations of a chain around 2024-04-01: that day, the Fridays after
\* it, and a text that names no date
ChainPool ==
    { 20240401, 20240405, 20240412, 20240419, 20240426, 20240503, 20240510,
      20240517, 20240524, 20240230 }

\* a chain that lists every date of the pool
FullChain == Chain("ok", SortedSeq(ChainPool \ {20240230}))

IbInput(today, days_until, chain, back_chain, price, front_price, back_price, front_iv, back_iv) ==
    [op |-> "scan_ib", stage |-> "input", today |-> today, days_until |-> days_until,
     chain |-> chain, back_chain |-> back_chain, price |-> price,
     front_price |-> front_price, back_price |-> back_price,
     front_iv |-> front_iv, back_iv |-> back_iv]

\* implied volatilities at and around the thresholds, 0 for a missing one
IVs == { 0, 3000, 4000, 4800, 5000, 5001, 5200, 5500, 6000, 6001, 6300, 6600, 7000 }

\* tickers that differ in their chain: every subset of the pool, a second
\* request that may fail, no chain, an exception
IbChainInputs ==
    { IbInput(t, du, Chain("ok", SortedSeq(S)), Chain(bk, SortedSeq(S)),
              10000, 250, 300, 6500, 5000) :
          t \in {91, 92}, du \in {0, 2, 5, 10}, S \in SUBSET ChainPool,
          bk \in {"ok", "error"} }
      \cup { IbInput(91, 5, Chain(k, <<>>), Chain(k, <<>>), 10000, 250, 300, 6500, 5000) :
                 k \in {"none", "error"} }

\* tickers that differ in their quotes
IbQuoteInputs ==
    { IbInput(91, du, FullChain, FullChain, pr, fp, bp, fiv, biv) :
          du \in {3, 5, 6, 7, 8}, pr \in {0, 10000}, fp \in {0, 250}, bp \in {0, 300},
          fiv \in IVs, biv \in IVs }

ScanTickerIb ==
    /\ scan.op = "scan_ib" /\ scan.stage = "input"
    /\ scan' = [scan EXCEPT !.stage = "done"] @@ [out |-> scan_ticker_ib(scan)]
    /\ UNCHANGED cacheVars

----------------------------------------------------------------------------
(* fetch_historical_gap_moves.  An event date 'YYYY-MM-DD' is the number     *)
(* YYYYMMDD, 0 for an event without one; realized_move_pct is in hundredths  *)
(* of a percent.                                                             *)

HISTORICAL_EARNINGS_LOOKBACK_DAYS == 730
HISTORICAL_EVENTS_MAX == 6

\* str.lower() on the hours the provider gives
Lower(hour) ==
    IF hour = "BMO" THEN "bmo" ELSE IF hour = "AMC" THEN "amc" ELSE hour

\* the exchange is closed at weekends and on Thanksgiving 2024 (day 332)
IsTradingDay(day) == Weekday(day) < 5 /\ day # 332

NoBar == [has |-> FALSE, open |-> 0, close |-> 0]

\* the daily bar IB holds for a day, prices in cents
Bar(day) ==
    IF IsTradingDay(day)
    THEN [has |-> TRUE, open |-> 10000 + ((day * 41) % 877),
          close |-> 10000 + ((day * 73) % 901)]
    ELSE NoBar

\* by_date of the bars ib.reqHistoricalData gives for endDateTime = ed + 3
\* days 00:00 and durationStr = '10 D': by_date.get(day)
ByDate(ed, day) ==
    IF ed - 7 <= day /\ day <= ed + 2 THEN Bar(day) ELSE NoBar

NoMove == [some |-> FALSE, pct |-> 0]

\* round(abs(a - b) / b * 100.0, 2)
MovePct(a, b) ==
    [some |-> TRUE, pct |-> PyRound((IF a >= b THEN a - b ELSE b - a) * 10000, b)]

\* `realized` of one event dated ed: the open gap of its hour, else the
\* close-to-close fallback, else none
RealizedMove(e, ed) ==
    LET bar_prev == ByDate(ed, ed - 1)
        bar_e == ByDate(ed, ed)
        bar_next == ByDate(ed, ed + 1)
        gap == IF e.hour # "" /\ Lower(e.hour) = "bmo"
               THEN (IF bar_prev.has /\ bar_e.has /\ bar_prev.close # 0 /\ bar_e.open # 0
                     THEN MovePct(bar_e.open, bar_prev.close) ELSE NoMove)
               ELSE IF e.hour # "" /\ Lower(e.hour) = "amc"
               THEN (IF bar_e.has /\ bar_next.has /\ bar_e.close # 0 /\ bar_next.open # 0
                     THEN MovePct(bar_next.open, bar_e.close) ELSE NoMove)
               ELSE NoMove
    IN  IF gap.some THEN gap
        ELSE IF bar_e.has /\ bar_next.has /\ bar_e.close # 0 /\ bar_next.close # 0
        THEN MovePct(bar_next.close, bar_e.close)
        ELSE NoMove

\* a list that is not cut
Truncate_Not(events, max_events) == events

\* events[:max_events]
Truncate(events, max_events) ==
    SubSeq(events, 1, IF Len(events) < max_events THEN Len(events) ELSE max_events)

HistoricalMove(e, pct) == [earnings_date |-> e.date, hour |-> e.hour, realized_move_pct |-> pct]

\* fetch_historical_gap_moves on the calendar `cal` the lookup gave
fetch_historical_gap_moves(cal, today, max_events) ==
    LET past(e) ==
            /\ e.date # NoDate
            /\ ~Strptime(e.date).raised
            /\ ~(Strptime(e.date).day >= today)
        sorted == SortSeq(SelectSeq(cal, past), LAMBDA a, b : a.date > b.date)
        events == Truncate(sorted, max_events)
        moves == [i \in 1..Len(events) |->
                     [e |-> events[i],
                      realized |-> RealizedMove(events[i], Strptime(events[i].date).day)]]
        computed == SelectSeq(moves, LAMBDA m : m.realized.some)
    IN  [i \in 1..Len(computed) |-> HistoricalMove(computed[i].e, computed[i].realized.pct)]

\* the provider's answer to a request for [from_d, to_d]: the events of the
\* ticker dated in the range, and the events it lists without a usable date
ProviderAnswer(history, from_d, to_d) ==
    SelectSeq(history,
              LAMBDA e : \/ e.date = NoDate
                         \/ Strptime(e.date).raised
                         \/ /\ from_d <= Strptime(e.date).day
                            /\ Strptime(e.date).day <= to_d)

\* the earnings events of a ticker: one three days older than the lookback of
\* 2026-03-18 and one on its first day (a Monday, before market), a Friday
\* and the eve of Thanksgiving without an hour, mid-week events of every
\* hour, one dated 2026-03-18, one without a date and one with no date in it
EventPool ==
    { Event(20240315, "amc"), Event(20240318, "bmo"), Event(20241025, ""),
      Event(20241127, "dmh"), Event(20250129, "BMO"), Event(20250428, "bmo"),
      Event(20250730, "amc"), Event(20251029, ""), Event(20260128, "amc"),
      Event(20260318, "bmo"), Event(NoDate, "amc"), Event(20250230, "amc") }

\* the provider lists its events oldest first
HistoryOf(S) == SortSeq(SetToSeq(S), LAMBDA a, b : a.date < b.date)

\* 2026-03-18, a Wednesday
GapToday == 807

GapInputs ==
    { [op |-> "gap_moves", stage |-> "input", today |-> GapToday, history |-> HistoryOf(S)] :
          S \in SUBSET EventPool }

\* one call of fetch_historical_gap_moves(ib, ticker)
GapMoves ==
    /\ scan.op = "gap_moves" /\ scan.stage = "input"
    /\ scan' = [scan EXCEPT !.stage = "done"]
                  @@ [out |-> fetch_historical_gap_moves(
                                  ProviderAnswer(scan.history,
                                                 scan.today - HISTORICAL_EARNINGS_LOOKBACK_DAYS,
                                                 scan.today),
                                  scan.today, HISTORICAL_EVENTS_MAX)]
    /\ UNCHANGED cacheVars

----------------------------------------------------------------------------
(* run_scan of run_preearnings_straddle_scan_ib.py: the quotes, the implied
   move, the ratios to the realized moves, the score and the recommendation
   of one ticker.  Money is in cents, a move in hundredths of a percent;
   Python's floats are the fractions num / den with den > 0, compared by
   cross-multiplication. *)

None == [kind |-> "none"]
Abs(n) == IF n < 0 THEN 0 - n ELSE n

RECURSIVE Gcd(_, _)
Gcd(a, b) == IF b = 0 THEN a ELSE Gcd(b, a % b)

\* the fraction n / d in lowest terms, d > 0
Rat(n, d) ==
    LET g == Gcd(Abs(n), d)
    IN  [kind |-> "num", num |-> n \div g, den |-> d \div g]
ZeroDivisionError == [kind |-> "ZeroDivisionError"]

RatAdd(a, b) == Rat(a.num * b.den + b.num * a.den, a.den * b.den)
RatSub(a, b) == Rat(a.num * b.den - b.num * a.den, a.den * b.den)

\* a / b of Python: raises on a zero divisor
RatDiv(a, b) ==
    IF b.num = 0 THEN ZeroDivisionError
    ELSE IF b.num < 0 THEN Rat(0 - a.num * b.den, a.den * (0 - b.num))
    ELSE Rat(a.num * b.den, a.den * b.num)

\* a <= p / q and a > 0, for den > 0
RatLeq(a, p, q) == a.num * q <= p * a.den
RatPositive(a) == a.num > 0

\* a value that is merely not None
Truthy_NotNone(x) == x.kind = "num"

\* `x` in a condition: neither None nor 0.0
Truthy(x) == x.kind = "num" /\ x.num # 0

MAX_REL_BID_ASK_SPREAD == 35
RATIO_AVG_CANDIDATE == 90
RATIO_LAST_CANDIDATE == 95
RATIO_AVG_WATCH == 100

\* tkr.bid if tkr.bid and tkr.bid > 0 else None, for a field in cents
FieldOrNone(v) == IF v > 0 THEN Rat(v, 1) ELSE None

\* the mid of get_option_quote, from its bid, ask and last
QuoteMid(bid, ask, lst) ==
    IF bid # None /\ ask # None THEN RatDiv(RatAdd(bid, ask), Rat(2, 1))
    ELSE IF lst # None THEN lst
    ELSE IF bid # None THEN bid
    ELSE IF ask # None THEN ask
    ELSE None

\* get_option_quote: (mid, bid, ask) of the ticker IB gave for the contract
get_option_quote(tkr) ==
    IF ~tkr.qualified THEN [mid |-> None, bid |-> None, ask |-> None]
    ELSE LET bid == FieldOrNone(tkr.bid)
             ask == FieldOrNone(tkr.ask)
             lst == FieldOrNone(tkr.last)
         IN  [mid |-> QuoteMid(bid, ask, lst), bid |-> bid, ask |-> ask]

\* a mid that takes the last price before the two sides
PriceMid_LastFirst(bid, ask, lst) ==
    IF Truthy(lst) THEN lst
    ELSE IF Truthy(bid) /\ Truthy(ask) THEN RatDiv(RatAdd(bid, ask), Rat(2, 1))
    ELSE IF Truthy(bid) THEN bid
    ELSE IF Truthy(ask) THEN ask
    ELSE None

\* the mid of get_option_price_and_iv, from its bid, ask and last
PriceMid(bid, ask, lst) ==
    IF Truthy(bid) /\ Truthy(ask) THEN RatDiv(RatAdd(bid, ask), Rat(2, 1))
    ELSE IF Truthy(lst) THEN lst
    ELSE IF Truthy(bid) THEN bid
    ELSE IF Truthy(ask) THEN ask
    ELSE None

\* a field of an IB ticker: nan until IB sends a value, else a number of
\* cents; -100 is IB's -1.0 for "no quote"
NaN == [kind |-> "nan"]
Num(v) == [kind |-> "num", v |-> v]

\* `x if x and x > 0 else None` of both quote functions: nan is truthy and
\* not > 0
PositiveOrNone(x) ==
    IF x.kind = "num" /\ x.v # 0 /\ x.v > 0 THEN Rat(x.v, 1) ELSE None

RawFields == { NaN, Num(0), Num(0 - 100), Num(390), Num(405), Num(410) }

MidInputs ==
    { [op |-> "mid", stage |-> "input", bid |-> b, ask |-> a, last |-> l] :
          b \in RawFields, a \in RawFields, l \in RawFields }

\* the mid each scanner's quote function computes from one snapshot
OptionMid ==
    /\ scan.op = "mid" /\ scan.stage = "input"
    /\ LET bid == PositiveOrNone(scan.bid)
           ask == PositiveOrNone(scan.ask)
           lst == PositiveOrNone(scan.last)
       IN  scan' = [scan EXCEPT !.stage = "done"]
                     @@ [out |-> [get_option_quote |-> QuoteMid(bid, ask, lst),
                                  get_option_price_and_iv |-> PriceMid(bid, ask, lst)]]
    /\ UNCHANGED cacheVars

spread_ok(q) ==
    IF q.bid = None \/ q.ask = None \/ q.mid = None \/ ~RatPositive(q.mid) THEN TRUE
    ELSE RatLeq(RatDiv(RatSub(q.ask, q.bid), q.mid), MAX_REL_BID_ASK_SPREAD, 100)

RECURSIVE SumPct(_)
SumPct(hist) == IF hist = <<>> THEN 0 ELSE Head(hist) + SumPct(Tail(hist))

\* the realized move over the implied one
Ratio_Inverted(implied_move_pct, realized) ==
    IF Truthy(realized) /\ RatPositive(realized)
    THEN RatDiv(realized, implied_move_pct) ELSE None

\* (implied_move_pct / realized) if (realized and realized > 0) else None
Ratio(implied_move_pct, realized) ==
    IF Truthy(realized) /\ RatPositive(realized)
    THEN RatDiv(implied_move_pct, realized) ELSE None

\* a label that looks at the average ratio only
StraddleRecommendation_AvgOnly(ratio_avg, ratio_last) ==
    IF ratio_avg # None /\ ratio_last # None
    THEN IF RatLeq(ratio_avg, RATIO_AVG_CANDIDATE, 100) THEN "CANDIDATE"
         ELSE IF RatLeq(ratio_avg, RATIO_AVG_WATCH, 100) THEN "WATCH"
         ELSE "PASS"
    ELSE "WATCH"

\* a label that passes on a ticker whose implied move is at or under its
\* average realized move, and watches one whose implied move is over it
StraddleRecommendation_PassCheap(ratio_avg, ratio_last) ==
    IF ratio_avg # None /\ ratio_last # None
    THEN IF /\ RatLeq(ratio_avg, RATIO_AVG_CANDIDATE, 100)
            /\ RatLeq(ratio_last, RATIO_LAST_CANDIDATE, 100) THEN "CANDIDATE"
         ELSE IF RatLeq(ratio_avg, RATIO_AVG_WATCH, 100) THEN "PASS"
         ELSE "WATCH"
    ELSE "WATCH"

\* the recommendation heuristic
StraddleRecommendation(ratio_avg, ratio_last) ==
    IF ratio_avg # None /\ ratio_last # None
    THEN IF /\ RatLeq(ratio_avg, RATIO_AVG_CANDIDATE, 100)
            /\ RatLeq(ratio_last, RATIO_LAST_CANDIDATE, 100) THEN "CANDIDATE"
         ELSE IF RatLeq(ratio_avg, RATIO_AVG_WATCH, 100) THEN "WATCH"
         ELSE "PASS"
    ELSE "WATCH"

NoOpportunity(why) == [record |-> FALSE, skip |-> why]

\* the body of run_scan's loop from the option quotes on, for a ticker with
\* a price and a picked expiration; hist is what fetch_historical_gap_moves
\* returned, as the list of its realized_move_pct
scan_ticker_straddle(in) ==
    LET call == get_option_quote(in.call)
        put == get_option_quote(in.put)
    IN  IF call.mid = None \/ put.mid = None
           \/ ~RatPositive(call.mid) \/ ~RatPositive(put.mid)
        THEN NoOpportunity("Missing option mids")
        ELSE IF ~spread_ok(call) \/ ~spread_ok(put)
        THEN NoOpportunity("Options too wide / illiquid")
        ELSE
        LET hist == in.hist
            straddle_mid == RatAdd(call.mid, put.mid)
            \* in hundredths of a percent
            implied_move_pct == RatDiv(Rat(straddle_mid.num * 10000, straddle_mid.den),
                                       Rat(in.price, 1))
            realized_avg == IF hist # <<>> THEN RatDiv(Rat(SumPct(hist), 1), Rat(Len(hist), 1))
                            ELSE None
            realized_last == IF hist # <<>> THEN Rat(hist[1], 1) ELSE None
            ratio_avg == Ratio(implied_move_pct, realized_avg)
            ratio_last == Ratio(implied_move_pct, realized_last)
            score == IF Truthy(realized_avg) /\ RatPositive(implied_move_pct)
                     THEN RatDiv(RatSub(realized_avg, implied_move_pct), implied_move_pct)
                     ELSE None
        IN  IF ZeroDivisionError \in {ratio_avg, ratio_last, score}
            THEN NoOpportunity("ZeroDivisionError")
            ELSE [record |-> TRUE, skip |-> "",
                  implied_move_pct |-> implied_move_pct,
                  realized_avg |-> realized_avg,
                  realized_last |-> realized_last,
                  ratio_avg |-> ratio_avg,
                  ratio_last |-> ratio_last,
                  score |-> score,
                  recommendation |-> StraddleRecommendation(ratio_avg, ratio_last)]

\* what reqMktData gave for an option: 0 where IB has no value
Tkr(bid, ask, lst) == [qualified |-> TRUE, bid |-> bid, ask |-> ask, last |-> lst]
Unqualified == [qualified |-> FALSE, bid |-> 0, ask |-> 0, last |-> 0]

CallTkrs ==
    { Unqualified, Tkr(0, 0, 0), Tkr(390, 410, 405), Tkr(0, 0, 450),
      Tkr(400, 600, 0), Tkr(420, 580, 0) }

PutTkrs == { Tkr(0, 0, 0), Tkr(390, 410, 0), Tkr(440, 460, 0), Tkr(450, 0, 0) }

StockPrices == { 5000, 10000 }

\* realized moves: none, 5.2 %, 7.6 %, 9 %, 10 % and 12 %
RealizedPcts == { 0, 520, 760, 900, 1000, 1200 }

MaxHist == 3

Histories == UNION { [1..n -> RealizedPcts] : n \in 0..MaxHist }

StraddleInputs ==
    { [op |-> "straddle", stage |-> "input", price |-> p, call |-> c, put |-> q, hist |-> h] :
          p \in StockPrices, c \in CallTkrs, q \in PutTkrs, h \in Histories }

\* one ticker of run_scan
ScanTickerStraddle ==
    /\ scan.op = "straddle" /\ scan.stage = "input"
    /\ scan' = [scan EXCEPT !.stage = "done"] @@ [out |-> scan_ticker_straddle(scan)]
    /\ UNCHANGED cacheVars

InitScan ==
    /\ CacheIdle
    /\ \/ scan \in StrikeInputs
       \/ scan \in PickInputs
       \/ scan \in IbChainInputs
       \/ scan \in IbQuoteInputs
       \/ scan \in GapInputs
       \/ scan \in StraddleInputs
       \/ scan \in MidInputs

NextScan ==
    \/ AtmStrike
    \/ PickExpiration
    \/ ScanTickerIb
    \/ GapMoves
    \/ ScanTickerStraddle
    \/ OptionMid

SpecScan == InitScan /\ [][NextScan]_vars

----------------------------------------------------------------------------
(* The scanners as programs: main, the loop over the tickers with upcoming  *)
(* earnings, the sort of the result and the result document.  A run is the  *)
(* record `scan`: pc is where the program stands, `next` the ticker the     *)
(* loop takes next, `open` the market-data subscriptions requested and not  *)
(* cancelled, `lookups` the tickers looked up at the earnings provider,     *)
(* `exit` the process's status (NoExit while it runs).                      *)

MaxTickers == 3

NoExit == 0 - 1

ENTRY_DAYS_TARGET == 14
ENTRY_WINDOW_DAYS == 3

\* round(x, 3) of a fraction, in thousandths
Round3(x) ==
    IF x.num >= 0 THEN PyRound(x.num * 1000, x.den)
    ELSE 0 - PyRound((0 - x.num) * 1000, x.den)

\* the opportunity dict of one ticker; the score is in thousandths, `scored`
\* is whether it is not None
Opportunity(ticker, out) ==
    [ticker |-> ticker,
     scored |-> out.score # None,
     score |-> IF out.score # None THEN Round3(out.score) ELSE 0,
     recommendation |-> out.recommendation]

\* what one pass of the loop body gives: the opportunity appended, if any,
\* and the subscriptions it leaves open
Pass(made, opp, open) == [made |-> made, opp |-> opp, open |-> open]
\* a pass that appends a record without content
NoRecord_Partial(open) == Pass(TRUE, <<>>, open)

\* the `continue` of a skip and of the except clause: nothing is appended
NoRecord(open) == Pass(FALSE, <<>>, open)

\* the body of run_scan's loop for one candidate.  in.raises names the IB
\* request that raises for this ticker, "none" when none does.
ticker_straddle(in) ==
    IF in.raises = "qualify" THEN NoRecord({})
    \* reqMktData(stock) is out; reqTickers(stock)[0] raises
    ELSE IF in.raises = "price" THEN NoRecord({<<in.ticker, "stock">>})
    ELSE IF in.price <= 0 THEN NoRecord({})
    ELSE IF in.raises = "expirations" THEN NoRecord({})
    ELSE IF in.expirations = <<>> THEN NoRecord({})
    ELSE IF pick_straddle_expiration_after_earnings(
                in.expirations, in.today, in.days_until) = NoPick
    THEN NoRecord({})
    \* get_option_quote: reqMktData(call) is out; ib.sleep or the read raises
    ELSE IF in.raises = "call_quote" /\ in.call.qualified
    THEN NoRecord({<<in.ticker, "call">>})
    ELSE IF in.raises = "put_quote" /\ in.put.qualified
    THEN NoRecord({<<in.ticker, "put">>})
    ELSE LET out == scan_ticker_straddle(in)
         IN  IF ~out.record THEN NoRecord({})
             ELSE IF in.raises = "history" THEN NoRecord({})
             ELSE Pass(TRUE, Opportunity(in.ticker, out), {})

DEFAULT_SORT_SCORE == 0 - 1000000000

\* the sort key (score is not None, score or -1e9); the second part is
\* <<whole units, thousandths over them>>, compared in that order
SortKey(o) ==
    [scored |-> o.scored,
     val |-> IF o.scored /\ o.score # 0
             THEN <<o.score \div 1000, o.score % 1000>>
             ELSE <<DEFAULT_SORT_SCORE, 0>>]

\* a > b for two keys
KeyGreater(a, b) ==
    \/ a.scored /\ ~b.scored
    \/ /\ a.scored = b.scored
       /\ \/ a.val[1] > b.val[1]
          \/ a.val[1] = b.val[1] /\ a.val[2] > b.val[2]

\* list.sort(key=..., reverse=True): descending by key, equal keys in their
\* order in the list
RECURSIVE InsertDescending(_, _)
InsertDescending(sorted, o) ==
    IF sorted = <<>> THEN <<o>>
    ELSE IF KeyGreater(SortKey(o), SortKey(Head(sorted)))
    THEN <<o>> \o sorted
    ELSE <<Head(sorted)>> \o InsertDescending(Tail(sorted), o)

RECURSIVE SortByScore(_)
SortByScore(opportunities) ==
    IF opportunities = <<>> THEN <<>>
    ELSE InsertDescending(SortByScore(SubSeq(opportunities, 1, Len(opportunities) - 1)),
                          opportunities[Len(opportunities)])

\* a candidate of the straddle scan
StraddleTicker(ticker, days_until, raises, price, call, put, hist) ==
    [ticker |-> ticker, today |-> 77, days_until |-> days_until, raises |-> raises,
     expirations |-> IF ticker = "NOCHAIN" THEN <<>>
                     ELSE SortedSeq(ExpirationPool \ {20240230}),
     price |-> price, call |-> call, put |-> put, hist |-> hist]

\* tickers of every outcome: a CANDIDATE (score 0.125), a WATCH whose score is
\* 0, a PASS (score -0.2), a PASS whose score rounds to 0 (-0.0004), a WATCH
\* with a score (0.059), one without history, one without a call, one without
\* a price, one without expirations, one outside the entry window, and
\* tickers for which an IB request raises
StraddleTickers ==
    { StraddleTicker("CAND", 14, "none", 10000, Tkr(390, 410, 405), Tkr(390, 410, 0), <<900, 900>>),
      StraddleTicker("ZERO", 12, "none", 10000, Tkr(420, 580, 0), Tkr(390, 410, 0), <<900>>),
      StraddleTicker("PASS", 14, "none", 10000, Tkr(390, 410, 0), Tkr(390, 410, 0), <<760, 520>>),
      StraddleTicker("TINY", 15, "none", 25000, Tkr(0, 0, 1250), Tkr(0, 0, 1251), <<1000>>),
      StraddleTicker("WATCH", 16, "none", 10000, Tkr(0, 0, 450), Tkr(390, 410, 0), <<900>>),
      StraddleTicker("NOHIST", 17, "none", 10000, Tkr(390, 410, 0), Tkr(390, 410, 0), <<>>),
      StraddleTicker("NOCALL", 14, "none", 10000, Unqualified, Tkr(390, 410, 0), <<900>>),
      StraddleTicker("NOPRICE", 14, "none", 0, Tkr(390, 410, 0), Tkr(390, 410, 0), <<900>>),
      StraddleTicker("NOCHAIN", 14, "none", 10000, Tkr(390, 410, 0), Tkr(390, 410, 0), <<900>>),
      StraddleTicker("LATE", 20, "none", 10000, Tkr(390, 410, 0), Tkr(390, 410, 0), <<1200>>),
      StraddleTicker("XPRICE", 11, "price", 10000, Tkr(390, 410, 0), Tkr(390, 410, 0), <<1200>>),
      StraddleTicker("XCHAIN", 14, "expirations", 10000, Tkr(390, 410, 0), Tkr(390, 410, 0), <<1200>>),
      StraddleTicker("XQUOTE", 14, "call_quote", 10000, Tkr(390, 410, 0), Tkr(390, 410, 0), <<1200>>),
      StraddleTicker("XHIST", 14, "history", 10000, Tkr(390, 410, 0), Tkr(390, 410, 0), <<1200>>) }

\* the lists of at most n different members of S
RECURSIVE ListsOf(_, _)
ListsOf(S, n) ==
    IF n = 0 THEN { <<>> }
    ELSE LET shorter == ListsOf(S, n - 1)
         IN  shorter \cup { Append(l, x) :
                               l \in { m \in shorter : Len(m) = n - 1 }, x \in S }

Distinct(l) == \A i, j \in 1..Len(l) : i # j => l[i].ticker # l[j].ticker

\* a run of the straddle scanner before main()
StraddleRun(token, ib_available, port_up, upcoming) ==
    [op |-> "main_straddle", pc |-> "main", token |-> token,
     ib_available |-> ib_available, port_up |-> port_up,
     upcoming |-> upcoming, candidates |-> <<>>, next |-> 1,
     connected |-> FALSE, lookups |-> 0, opportunities |-> <<>>, open |-> {},
     written |-> FALSE, document |-> <<>>, exit |-> NoExit]

\* get_next_earnings_within returns its list sorted by days_until
ByDaysUntil(l) == \A i, j \in 1..Len(l) : i < j => l[i].days_until <= l[j].days_until

StraddleRuns ==
    { StraddleRun(TRUE, TRUE, TRUE, l) :
          l \in { m \in ListsOf(StraddleTickers, MaxTickers) : Distinct(m) /\ ByDaysUntil(m) } }
      \cup { StraddleRun(tk, av, up, <<x>>) :
                tk \in BOOLEAN, av \in BOOLEAN, up \in BOOLEAN,
                x \in { y \in StraddleTickers : y.ticker \in {"CAND", "PASS"} } }

\* the process has ended with `status`
Exited(run, status) == [run EXCEPT !.pc = "exited", !.exit = status]

\* main() up to the loop of run_scan: the token, the library, the connection,
\* then get_next_earnings_within and the entry window
StraddleMain ==
    /\ scan.op = "main_straddle" /\ scan.pc = "main"
    /\ scan' = IF ~scan.token THEN Exited(scan, 1)
               ELSE IF ~scan.ib_available THEN Exited(scan, 1)
               ELSE IF ~scan.port_up THEN Exited(scan, 1)
               ELSE [scan EXCEPT
                        !.pc = "loop",
                        !.connected = TRUE,
                        !.lookups = Len(scan.upcoming),
                        !.candidates =
                            SelectSeq(scan.upcoming,
                                LAMBDA x : /\ ENTRY_DAYS_TARGET - ENTRY_WINDOW_DAYS <= x.days_until
                                           /\ x.days_until <= ENTRY_DAYS_TARGET + ENTRY_WINDOW_DAYS)]
    /\ UNCHANGED cacheVars

\* one pass of the loop of run_scan
StraddleLoop ==
    /\ scan.op = "main_straddle" /\ scan.pc = "loop"
    /\ scan.next <= Len(scan.candidates)
    /\ LET pass == ticker_straddle(scan.candidates[scan.next])
       IN  scan' = [scan EXCEPT
                       !.next = scan.next + 1,
                       !.opportunities = IF pass.made THEN Append(@, pass.opp) ELSE @,
                       !.open = @ \cup pass.open]
    /\ UNCHANGED cacheVars

\* the end of run_scan and of main(): the sort, the document, the status
StraddleEnd ==
    /\ scan.op = "main_straddle" /\ scan.pc = "loop"
    /\ scan.next > Len(scan.candidates)
    /\ scan' = [Exited(scan, 0) EXCEPT
                   !.opportunities = SortByScore(scan.opportunities),
                   !.written = TRUE,
                   !.document = SortByScore(scan.opportunities)]
    /\ UNCHANGED cacheVars

\* the opportunity dict of one ticker of the calendar scan
IbOpportunity(in, out) ==
    [ticker |-> in.ticker, days_to_earnings |-> in.days_until,
     sell_dte |-> out.front_dte, buy_dte |-> out.back_dte,
     front_iv |-> out.front_iv, back_iv |-> out.back_iv,
     recommendation |-> out.recommendation]

\* the body of run_earnings_scan_ib's loop for one ticker.  in.raises names
\* the IB request that raises for this ticker; get_option_price_and_iv turns
\* an exception of its own into (None, None) and returns at once.
ticker_ib(in) ==
    IF in.raises = "qualify" THEN NoRecord({})
    \* reqMktData(stock) is out; reqTickers(stock)[0] raises
    ELSE IF in.raises = "price" THEN NoRecord({<<in.ticker, "stock">>})
    ELSE LET got == [in EXCEPT
                        !.front_price = IF in.raises = "front_quote" THEN 0 ELSE @,
                        !.front_iv = IF in.raises = "front_quote" THEN 0 ELSE @,
                        !.back_price = IF in.raises = "back_quote" THEN 0 ELSE @,
                        !.back_iv = IF in.raises = "back_quote" THEN 0 ELSE @]
             out == scan_ticker_ib(got)
             \* both options were found, and their quotes asked for
             quoted == out.record \/ out.skip = "option_price"
             open == { <<in.ticker, leg>> :
                          leg \in { l \in {"front", "back"} :
                                       quoted /\ in.raises = l \o "_quote" } }
         IN  IF out.record THEN Pass(TRUE, IbOpportunity(in, out), open)
             ELSE NoRecord(open)

\* a ticker with upcoming earnings of the calendar scan, on 2024-04-01
IbTicker(ticker, days_until, raises, kind, price, front_price, back_price, front_iv, back_iv) ==
    [ticker |-> ticker, raises |-> raises] @@
    IbInput(91, days_until, Chain(kind, FullChain.expirations),
            Chain(kind, FullChain.expirations),
            price, front_price, back_price, front_iv, back_iv)

\* tickers of every outcome: the three labels, one without IVs, one without a
\* price, one without a front quote, one without a chain, one whose
\* implied-volatility calculation raises, and tickers for which an IB request
\* raises
IbTickers ==
    { IbTicker("REC", 3, "none", "ok", 10000, 250, 300, 7000, 5000),
      IbTicker("CONS", 6, "none", "ok", 10000, 250, 300, 5500, 5000),
      IbTicker("AVOID", 5, "none", "ok", 10000, 250, 300, 4000, 5000),
      IbTicker("NOIV", 6, "none", "ok", 10000, 250, 300, 0, 0),
      IbTicker("NOPRICE", 5, "none", "ok", 0, 250, 300, 6000, 5000),
      IbTicker("NOFRONT", 5, "none", "ok", 10000, 0, 300, 0, 5000),
      IbTicker("NOCHAIN", 5, "none", "none", 10000, 250, 300, 6000, 5000),
      IbTicker("XIV", 7, "iv_calc", "ok", 10000, 250, 300, 0, 5000),
      IbTicker("XPRICE", 2, "price", "ok", 10000, 250, 300, 6000, 5000),
      IbTicker("XFRONT", 5, "front_quote", "ok", 10000, 250, 300, 6000, 5000),
      IbTicker("XBACK", 8, "back_quote", "ok", 10000, 250, 300, 6000, 5000),
      IbTicker("XCHAIN", 5, "none", "error", 10000, 250, 300, 6000, 5000) }

\* a run of the calendar scanner before its __main__ block
IbRun(token, ib_available, port_up, upcoming) ==
    [StraddleRun(token, ib_available, port_up, upcoming) EXCEPT !.op = "main_ib"]

IbRuns ==
    { IbRun(TRUE, TRUE, TRUE, l) :
          l \in { m \in ListsOf(IbTickers, MaxTickers) : Distinct(m) /\ ByDaysUntil(m) } }
      \cup { IbRun(tk, av, up, <<x>>) :
                tk \in BOOLEAN, av \in BOOLEAN, up \in BOOLEAN,
                x \in { y \in IbTickers : y.ticker \in {"REC", "AVOID"} } }

\* the result dict has been dumped to the JSON file and the process left
\* with `status`
Saved(run, status) ==
    [Exited(run, status) EXCEPT !.written = TRUE, !.document = run.opportunities]

\* the module's import and its __main__ block up to the loop of
\* run_earnings_scan_ib: the library, the connection, then
\* get_upcoming_earnings, which returns [] without a token
IbMain ==
    /\ scan.op = "main_ib" /\ scan.pc = "main"
    /\ scan' = IF ~scan.ib_available THEN Exited(scan, 1)
               ELSE IF ~scan.port_up THEN Exited(scan, 1)
               ELSE IF ~scan.token \/ scan.upcoming = <<>>
               THEN Saved([scan EXCEPT !.connected = TRUE,
                                       !.lookups = IF scan.token THEN Len(scan.upcoming) ELSE 0],
                          0)
               ELSE [scan EXCEPT !.pc = "loop", !.connected = TRUE,
                                 !.lookups = Len(scan.upcoming),
                                 !.candidates = scan.upcoming]
    /\ UNCHANGED cacheVars

\* one pass of the loop of run_earnings_scan_ib
IbLoop ==
    /\ scan.op = "main_ib" /\ scan.pc = "loop"
    /\ scan.next <= Len(scan.candidates)
    /\ LET pass == ticker_ib(scan.candidates[scan.next])
       IN  scan' = [scan EXCEPT
                       !.next = scan.next + 1,
                       !.opportunities = IF pass.made THEN Append(@, pass.opp) ELSE @,
                       !.open = @ \cup pass.open]
    /\ UNCHANGED cacheVars

\* the end of run_earnings_scan_ib and of the __main__ block
IbEnd ==
    /\ scan.op = "main_ib" /\ scan.pc = "loop"
    /\ scan.next > Len(scan.candidates)
    /\ scan' = Saved(scan, 0)
    /\ UNCHANGED cacheVars

InitRun ==
    /\ CacheIdle
    /\ \/ scan \in StraddleRuns
       \/ scan \in IbRuns

NextRun ==
    \/ StraddleMain
    \/ StraddleLoop
    \/ StraddleEnd
    \/ IbMain
    \/ IbLoop
    \/ IbEnd

SpecRun == InitRun /\ [][NextRun]_vars

----------------------------------------------------------------------------
(* Two processes on one cache file *)
(* Each process runs fetch_earnings_calendar_cached once.  A process reads   *)
(* the clock and the file (load), asks the provider (fetch), writes the file *)
(* and returns (save); the steps of the two interleave.  scan.procs holds    *)
(* each process's locals, scan.writers the processes in the order of their   *)
(* writes.                                                                   *)

Procs == {1, 2}

\* a process about to call fetch_earnings_calendar_cached(q, ...); resp is
\* what the provider will answer it
Proc(q, resp) ==
    [pc |-> "load", q |-> q, resp |-> resp, t |-> 0,
     loaded |-> NoEntries, entries |-> NoEntries, data |-> <<>>,
     fetched |-> FALSE, saved |-> FALSE, raised |-> FALSE,
     returned |-> FALSE, result |-> <<>>]

\* k of the process
ProcKey(pr) == _cache_key(pr.q.symbol, pr.q.from_date, pr.q.to_date)

RaceRequests == { Req(SYM_F, 1, 8), Req(SYM_f, 1, 8), Req(SYM_F, 2, 9) }

RaceResponses ==
    { OkResp(<<Event(5, "bmo"), Event(3, "amc")>>),
      OkResp(<<Event(6, "amc")>>),
      Resp("transport_error", 0, "", "", <<>>) }

RaceRuns ==
    { [op |-> "race", procs |-> <<Proc(q1, r1), Proc(q2, r2)>>, writers |-> <<>>] :
          q1 \in RaceRequests, r1 \in RaceResponses,
          q2 \in RaceRequests, r2 \in RaceResponses }

\* the process goes on as `pr`
Goes(i, pr) == scan' = [scan EXCEPT !.procs[i] = pr]

\* the process ends with the exception it lets through
ProcRaises(pr) == [pr EXCEPT !.pc = "done", !.raised = TRUE]

\* the process returns `data`
ProcReturns(pr, data) == [pr EXCEPT !.pc = "done", !.returned = TRUE, !.result = data]

\* now = time.time(); cache = _load_cache(); the hit test
RaceLoad(i) ==
    /\ scan.op = "race" /\ scan.procs[i].pc = "load"
    /\ LET pr == [scan.procs[i] EXCEPT !.t = now,
                                       !.loaded = _load_cache(file, perm),
                                       !.entries = _load_cache(file, perm)]
           k == ProcKey(pr)
       IN  IF k \in DOMAIN pr.entries /\ IsObject(pr.entries[k])
           THEN LET checked_at == CheckedAt(pr.entries[k])
                IN  IF checked_at.raised THEN Goes(i, ProcRaises(pr))
                    ELSE IF IsFresh(checked_at.value, pr.t, CACHE_TTL_SECONDS)
                    THEN Goes(i, ProcReturns(pr, HitData(pr.entries[k])))
                    ELSE Goes(i, [pr EXCEPT !.pc = "fetch"])
           ELSE Goes(i, [pr EXCEPT !.pc = "fetch"])
    /\ UNCHANGED cacheVars

\* data = fetch_earnings_calendar(...); entries[k] = {...}; the pruning block
RaceFetch(i) ==
    /\ scan.op = "race" /\ scan.procs[i].pc = "fetch"
    /\ LET pr == scan.procs[i]
           got == fetch_earnings_calendar(pr.resp)
           put == Put(pr.entries, ProcKey(pr), NewEntry(pr.t, got.data))
       IN  IF got.raised THEN Goes(i, ProcRaises(pr))
           ELSE Goes(i, [pr EXCEPT !.pc = "save", !.fetched = TRUE, !.data = got.data,
                                   !.entries = Pop(put, Evicted(put))])
    /\ UNCHANGED cacheVars

\* cache["entries"] = entries; _save_cache(cache); return data
RaceSave(i) ==
    /\ scan.op = "race" /\ scan.procs[i].pc = "save"
    /\ LET pr == scan.procs[i]
       IN  /\ file' = _save_cache(file, perm, pr.entries)
           /\ scan' = [scan EXCEPT !.procs[i] = [ProcReturns(pr, pr.data) EXCEPT !.saved = perm.writable],
                                   !.writers = Append(@, i)]
    /\ UNCHANGED <<perm, now, todo, last>>

InitRace ==
    /\ file \in InitFiles
    /\ perm = Healthy
    /\ now \in Times
    /\ todo = 0
    /\ last = NoCall
    /\ scan \in RaceRuns

NextRace ==
    \/ \E i \in Procs : RaceLoad(i)
    \/ \E i \in Procs : RaceFetch(i)
    \/ \E i \in Procs : RaceSave(i)

SpecRace == InitRace /\ [][NextRace]_vars

----------------------------------------------------------------------------
(* What the claims speak of *)

\* the step is a lookup
IsCall == todo' = todo - 1

\* the key of the latest lookup
LastKey == _cache_key(last.symbol, last.from_date, last.to_date)

Entries == file.entries

----------------------------------------------------------------------------
(* C1 *)

\* C1: a lookup of a key whose stored entry is at most ttl old (now -
\* checked_at <= ttl) returns exactly the stored payload, the empty list
\* included, and makes no provider call.
C1_FreshEntryServed ==
    [][ IsCall =>
          LET k == _cache_key(last'.symbol, last'.from_date, last'.to_date)
          IN  (k \in DOMAIN Entries /\ now - Entries[k].checked_at <= CACHE_TTL_SECONDS)
                => /\ ~last'.raised
                   /\ last'.provider_calls = 0
                   /\ last'.data = Entries[k].data ]_vars

\* a lookup in this scan stored an empty list (the entry is younger than any
\* the scan started with), and the latest lookup, exactly ttl later, was
\* answered from it
C1_Witness ==
    /\ last.op = "fetch" /\ last.hit /\ last.data = <<>>
    /\ last.provider_calls = 0
    /\ LastKey \in DOMAIN Entries
    /\ Entries[LastKey].checked_at > CACHE_TTL_SECONDS
    /\ last.at - Entries[LastKey].checked_at = CACHE_TTL_SECONDS

----------------------------------------------------------------------------
(* C2 *)

\* C2: a lookup of a key whose stored entry is older than ttl makes exactly
\* one provider call, replaces the entry by the new result with checked_at =
\* now, saves the file and returns the new result; a further lookup within
\* ttl of that refresh makes no provider call.
C2_StaleEntryRefetched ==
    [][ IsCall =>
          LET k == _cache_key(last'.symbol, last'.from_date, last'.to_date)
          IN  /\ (k \in DOMAIN Entries /\ now - Entries[k].checked_at > CACHE_TTL_SECONDS)
                   => /\ last'.provider_calls = 1
                      /\ ~last'.raised
                      /\ last'.saved
                      /\ k \in DOMAIN file'.entries
                      /\ file'.entries[k] = NewEntry(now, last'.data)
              /\ (k \in DOMAIN Entries /\ Entries[k].checked_at > 0
                    /\ now - Entries[k].checked_at <= CACHE_TTL_SECONDS)
                   => last'.provider_calls = 0 ]_vars

----------------------------------------------------------------------------
(* C3 *)

\* C3: a lookup whose provider call fails (non-success status, transport
\* error, malformed payload) does not raise: it returns the empty list and
\* stores an empty entry for the key with checked_at = now.
C3_ProviderFailureCachedAsEmpty ==
    (last.op # "none" /\ last.failure # "none")
        => /\ ~last.raised
           /\ last.data = <<>>
           /\ LastKey \in DOMAIN Entries
           /\ Entries[LastKey] = NewEntry(last.at, <<>>)

----------------------------------------------------------------------------
(* C4 *)

\* the lookup of this step stored an entry under a key the file did not hold,
\* and the store then had more than PRUNE_THRESHOLD entries
InsertExceedsThreshold ==
    /\ IsCall /\ ~last'.raised /\ ~last'.hit
    /\ Cardinality(DOMAIN Entries \cup
                     {_cache_key(last'.symbol, last'.from_date, last'.to_date)})
          > PRUNE_THRESHOLD

\* the keys the store held after the insert of this step and the file no
\* longer holds
Gone ==
    (DOMAIN Entries \cup {_cache_key(last'.symbol, last'.from_date, last'.to_date)})
        \ DOMAIN file'.entries

\* C4 as stated: whenever a miss inserts an entry that takes the count over
\* 4000, exactly 500 entries are evicted in that call and the count after the
\* call is at most 3500.
C4_AtMost3500AfterPrune ==
    [][ InsertExceedsThreshold
          => /\ Cardinality(Gone) = PRUNE_COUNT
             /\ Cardinality(DOMAIN file'.entries) <= PRUNE_THRESHOLD - PRUNE_COUNT ]_vars

\* C4: whenever a miss inserts an entry that takes the count over 4000 (to
\* 4001: a saved store never holds more than 4000), exactly 500 entries are
\* evicted in that call and the count after the call is 3501.
C4_PruneLeaves3501 ==
    [][ InsertExceedsThreshold
          => /\ Cardinality(Gone) = PRUNE_COUNT
             /\ Cardinality(DOMAIN file'.entries) = PRUNE_THRESHOLD + 1 - PRUNE_COUNT ]_vars

\* a lookup of a new key on a file of 4000 entries pruned the store
C4_Witness ==
    /\ last.op = "fetch" /\ last.provider_calls = 1 /\ last.saved
    /\ Len(last.evicted) = PRUNE_COUNT
    /\ Cardinality(DOMAIN Entries) = PRUNE_THRESHOLD + 1 - PRUNE_COUNT

----------------------------------------------------------------------------
(* C5 *)

\* the checked_at an entry counts with: 0 when it is missing or unreadable
CheckedAtOrZero(entry) ==
    IF entry.shape \in {"entry", "data_not_list"} THEN entry.checked_at ELSE 0

\* (ta, ka) comes before (tb, kb): older, or as old and with the smaller key
ComesBefore(ta, ka, tb, kb) == ta < tb \/ (ta = tb /\ KeyLess(ka, kb))

\* what key x counts with in the pruning of a lookup of key k at clock value
\* t on the entries `old`: the new entry's checked_at is t
TsIn(old, k, t, x) == IF x = k THEN t ELSE CheckedAtOrZero(old[x])

\* the keys in Gone are the PRUNE_COUNT first of the store in the order
\* ComesBefore: p, the last of them, is gone, every other gone key comes
\* before p and every key the file still holds comes after p
GoneAreTheFirst(p) ==
    \E k \in { _cache_key(last'.symbol, last'.from_date, last'.to_date) } :
    \E old \in { Entries } :
    \E tp \in { TsIn(old, k, now, p) } :
        /\ p \in Gone
        /\ Cardinality(Gone) = PRUNE_COUNT
        /\ DOMAIN file'.entries \subseteq DOMAIN old \cup {k}
        /\ \A x \in Gone :
              \E tx \in { TsIn(old, k, now, x) } :
                  /\ x = p \/ ComesBefore(tx, x, tp, p)
                  /\ tx <= tp
        /\ \A x \in DOMAIN file'.entries :
              \E tx \in { TsIn(old, k, now, x) } :
                  /\ ComesBefore(tp, p, tx, x)
                  /\ tx >= tp

\* C5: when pruning runs, the evicted entries are exactly the 500 that come
\* first in the order of ascending checked_at, ties broken by ascending key
\* string, an entry without a readable checked_at counting as 0; no
\* surviving entry is strictly older than an evicted one.
C5_EvictsOldest ==
    [][ (IsCall /\ last'.provider_calls = 1 /\ ~last'.raised /\ Gone # {})
          => \E p \in { last'.evicted[Len(last'.evicted)][2] } : GoneAreTheFirst(p) ]_vars

\* a pruning that evicted entries without a readable checked_at first and
\* stopped inside a group of equally old entries: a survivor is as old as the
\* last evicted entry
C5_Witness ==
    /\ Len(last.evicted) = PRUNE_COUNT
    /\ last.evicted[1][1] = 0
    /\ FillerKey(2) \notin DOMAIN Entries
    /\ \E x \in DOMAIN Entries :
          Entries[x].checked_at = last.evicted[PRUNE_COUNT][1]

----------------------------------------------------------------------------
(* C6 *)

\* the lookup of this step was answered from the file: the file is as it was
HitWritesNothing ==
    (IsCall /\ last'.hit) => (file' = file /\ ~last'.saved)

\* an entry's checked_at changes only in a lookup of its key that called the
\* provider, and becomes the clock value of that lookup
CheckedAtChangesOnlyByFetch ==
    \A k \in DOMAIN Entries \cap DOMAIN file'.entries :
        file'.entries[k].checked_at # Entries[k].checked_at
            => /\ IsCall
               /\ k = _cache_key(last'.symbol, last'.from_date, last'.to_date)
               /\ last'.provider_calls = 1
               /\ ~last'.hit
               /\ file'.entries[k].checked_at = now

\* while the clock has not run backwards no checked_at is ahead of it, and
\* then a step of a non-decreasing clock lowers no checked_at
CheckedAtNeverDecreases ==
    ((\A k \in DOMAIN Entries : Entries[k].checked_at <= now) /\ now' >= now)
        => /\ \A k \in DOMAIN Entries \cap DOMAIN file'.entries :
                 file'.entries[k].checked_at >= Entries[k].checked_at
           /\ \A k \in DOMAIN file'.entries : file'.entries[k].checked_at <= now'

\* C6: a cache hit leaves the file unchanged (no write, no entry's checked_at
\* or payload altered); an entry's checked_at changes only in a lookup that
\* fetched its key from the provider, and never decreases while the clock is
\* non-decreasing.
C6_HitIsReadOnly ==
    [][ HitWritesNothing /\ CheckedAtChangesOnlyByFetch /\ CheckedAtNeverDecreases ]_vars

\* this scan fetched the key, and a later lookup at a later clock value was
\* answered from that entry
C6_Witness ==
    /\ last.hit /\ ~last.saved
    /\ LastKey \in DOMAIN Entries
    /\ Entries[LastKey].checked_at > CACHE_TTL_SECONDS
    /\ last.at > Entries[LastKey].checked_at

----------------------------------------------------------------------------
(* C7 *)

\* two symbols that differ at most in the case of their letters
SameIgnoringCase(a, b) ==
    /\ Len(a) = Len(b)
    /\ \A i \in 1..Len(a) :
          \/ a[i] = b[i]
          \/ a[i] \in 65..90 /\ b[i] = a[i] + 32
          \/ b[i] \in 65..90 /\ a[i] = b[i] + 32

\* entry key k is the entry of the request (symbol, from_date, to_date)
EntryOf(k, symbol, from_date, to_date) ==
    SameIgnoringCase(k[1], symbol) /\ k[2] = from_date /\ k[3] = to_date

\* a request has at most one entry
OneEntryPerTriple ==
    \A k1, k2 \in DOMAIN Entries :
        EntryOf(k1, k2[1], k2[2], k2[3]) => k1 = k2

\* a lookup reads and writes the entry of its own triple only
LookupUsesOwnTriple ==
    IsCall =>
      LET own(k) == EntryOf(k, last'.symbol, last'.from_date, last'.to_date)
      IN  /\ last'.hit =>
                \E k \in DOMAIN Entries : own(k) /\ last'.data = Entries[k].data
          /\ (\E k \in DOMAIN Entries :
                 own(k) /\ now - Entries[k].checked_at <= CACHE_TTL_SECONDS)
                => last'.hit
          /\ (\A k \in DOMAIN Entries : ~own(k)) => ~last'.hit
          /\ (~last'.hit /\ ~last'.raised) =>
                \E k \in DOMAIN file'.entries :
                    own(k) /\ file'.entries[k] = NewEntry(now, last'.data)
          /\ \A k \in DOMAIN Entries :
                ~own(k) => (k \in DOMAIN file'.entries /\ file'.entries[k] = Entries[k])

\* C7: the cache key is the triple (upper-cased symbol, from_date, to_date):
\* lookups whose symbols differ only in letter case and whose dates are equal
\* share one entry, lookups that differ in from_date or to_date use distinct
\* entries, and an entry of another (containing, overlapping) range never
\* answers a lookup.
C7_KeyIsExactTriple ==
    []OneEntryPerTriple /\ [][LookupUsesOwnTriple]_vars

\* the file holds fresh entries of F for a range that contains the asked one;
\* the lookup of "f" for (1, 8) was answered from the entry stored as "F"
\* for exactly (1, 8)
C7_Witness ==
    /\ last.symbol = SYM_f /\ last.from_date = 1 /\ last.to_date = 8 /\ last.hit
    /\ _cache_key(SYM_F, 1, 15) \in DOMAIN Entries
    /\ last.data # Entries[_cache_key(SYM_F, 1, 15)].data

----------------------------------------------------------------------------
(* C8 *)

\* the file holds no store, or the entry of key k has the wrong shape
CorruptFor(k) ==
    \/ file.kind \notin {"absent", "store"}
    \/ (k \in DOMAIN Entries /\ Entries[k].shape # "entry")

\* C8: whatever the cache file holds (nothing, invalid JSON, no object, no
\* 'entries' object, an entry of the wrong shape), a lookup does not fail: it
\* takes the corrupt store or entry as absent, fetches from the provider and
\* returns the result.  Stated for lookups whose provider call, if made, is
\* answered well.
C8_CorruptStoreTreatedAsAbsent ==
    [][ IsCall =>
          LET k == _cache_key(last'.symbol, last'.from_date, last'.to_date)
          IN  (CorruptFor(k) /\ last'.failure = "none")
                => /\ ~last'.raised
                   /\ last'.provider_calls = 1
                   /\ k \in DOMAIN file'.entries
                   /\ file'.entries[k] = NewEntry(now, last'.data) ]_vars

----------------------------------------------------------------------------
(* C9 *)

\* C9: with an unreadable or unwritable cache file a lookup still returns
\* without raising (its provider call, if made, being answered well), and a
\* key the previous lookup of the scan fetched is served to a lookup within
\* ttl of that fetch without a second provider call.
C9_InMemoryForTheRun ==
    [][ IsCall =>
          /\ last'.failure = "none" => ~last'.raised
          /\ ( /\ last.op # "none" /\ last.provider_calls = 1 /\ ~last.raised
               /\ _cache_key(last'.symbol, last'.from_date, last'.to_date) = LastKey
               /\ now >= last.at /\ now - last.at <= CACHE_TTL_SECONDS )
                => /\ last'.provider_calls = 0
                   /\ last'.data = last.data ]_vars

----------------------------------------------------------------------------
(* C10 *)

\* the dates of the events of a list
DatesOf(cal) == { cal[i].date : i \in 1..Len(cal) } \ { NoDate }

\* C10: get_next_earnings_date_cached returns the earliest date among the
\* events the cache returned for [today, today + days_ahead], whatever their
\* order, and returns none exactly when that list is empty.
C10_EarliestDate ==
    (last.op = "next_date" /\ ~last.raised)
        => /\ (last.date = NoDate) <=> (last.data = <<>>)
           /\ last.data # <<>> =>
                 /\ last.date \in DatesOf(last.data)
                 /\ \A d \in DatesOf(last.data) : last.date <= d

----------------------------------------------------------------------------
(* C11 *)

\* the step of the band a price is in
StepOf(price) ==
    IF price < BAND_50 THEN STEP_2_5 ELSE IF price < BAND_200 THEN STEP_5 ELSE STEP_10

\* s is a multiple of step and no multiple of step is nearer to price
NearestMultiple(s, step, price) ==
    /\ s % step = 0
    /\ 2 * (IF s >= price THEN s - price ELSE price - s) <= step

\* the strike of a price that was rounded
StrikeOf(price, strike) ==
    (scan.op = "atm_strike" /\ scan.stage = "done" /\ scan.price = price)
        => scan.strike = strike

\* C11: for every price > 0 get_atm_strike returns the multiple of the band's
\* step (2.5 under 50, 5 from 50 to under 200, 10 from 200) nearest to the
\* price, so 30 gives 30, 42.00 gives 42.5, 187.43 gives 185 and 402 gives
\* 400; the two variants of get_atm_strike return the same strike.
C11_NearestStrike ==
    /\ (scan.op = "atm_strike" /\ scan.stage = "done")
          => /\ NearestMultiple(scan.strike, StepOf(scan.price), scan.price)
             /\ scan.strike_scan_ib = scan.strike
    /\ StrikeOf(3000, 3000) /\ StrikeOf(4200, 4250)
    /\ StrikeOf(18743, 18500) /\ StrikeOf(40200, 40000)

\* 187.43 was rounded to 185
C11_Witness ==
    /\ scan.op = "atm_strike" /\ scan.stage = "done"
    /\ scan.price = 18743 /\ scan.strike = 18500

----------------------------------------------------------------------------
(* C12 *)

\* the expirations of the computation in hand that parse and whose dte is in
\* days_until_earnings + 1 .. days_until_earnings + 90
C12_Candidates ==
    { e \in { scan.expirations[i] : i \in 1..Len(scan.expirations) } :
        /\ ~Strptime(e).raised
        /\ Strptime(e).day - scan.today >= scan.days_until_earnings + 1
        /\ Strptime(e).day - scan.today <= scan.days_until_earnings + 90 }

\* a Friday with day-of-month in 15..21
C12_Monthly(e) == Weekday(Strptime(e).day) = 4 /\ (e % 100) \in 15..21

\* e is the one of S with the smallest dte, and the pick
C12_PickedNearestOf(S, e) ==
    /\ e \in S
    /\ \A x \in S : Strptime(e).day <= Strptime(x).day
    /\ scan.picked = [found |-> TRUE, exp |-> e, dte |-> Strptime(e).day - scan.today]

\* C12: the candidates are exactly the parseable expirations with
\* days_until_earnings + 1 <= dte <= days_until_earnings + 90; the pick is the
\* monthly candidate (a Friday with day-of-month in 15..21) of smallest dte if
\* there is one, even when a non-monthly candidate is nearer, else the
\* candidate of smallest dte, and none if there is no candidate.
C12_MonthlyThenNearest ==
    (scan.op = "pick_expiration" /\ scan.stage = "done")
        => LET monthly == { e \in C12_Candidates : C12_Monthly(e) }
           IN  IF C12_Candidates = {} THEN ~scan.picked.found
               ELSE IF monthly # {} THEN \E e \in monthly : C12_PickedNearestOf(monthly, e)
               ELSE \E e \in C12_Candidates : C12_PickedNearestOf(C12_Candidates, e)

\* 20240419 was picked although the weekly 20240405 is a nearer candidate
C12_Witness ==
    /\ scan.op = "pick_expiration" /\ scan.stage = "done"
    /\ scan.picked.found /\ scan.picked.exp = 20240419
    /\ 20240405 \in C12_Candidates

----------------------------------------------------------------------------
(* C13 *)

\* the expirations a request for the chain `chain` lists: none when the
\* request gave no chain or failed, or the list cannot be read as dates
C13_Listed(chain) ==
    IF chain.kind = "ok"
          /\ \A i \in 1..Len(chain.expirations) : ~Strptime(chain.expirations[i]).raised
    THEN { chain.expirations[i] : i \in 1..Len(chain.expirations) }
    ELSE {}

\* the expirations of `chain` with lo <= dte <= hi
C13_Qualifying(chain, lo, hi) ==
    { e \in C13_Listed(chain) :
        lo <= Strptime(e).day - scan.today /\ Strptime(e).day - scan.today <= hi }

\* e is the one of S with the smallest dte
C13_Nearest(S, e) == e \in S /\ \A x \in S : Strptime(e).day <= Strptime(x).day

----------------------------------------------------------------------------
(* C20 *)

\* the premium of front over back, (front - back) / back, is over pct percent
C20_PremiumOver(front, back, pct) == (front - back) * 100 > pct * back

\* C20: the recommendation is AVOID whenever front IV <= back IV, whatever
\* the IV level and the days to earnings; with front IV > back IV it is
\* RECOMMENDED exactly when front IV > 60% and days_until <= 5 and the premium
\* of front over back is > 10%, otherwise CONSIDER exactly when front IV > 50%
\* and days_until <= 7 and the premium is > 5%, otherwise AVOID.
C20_TermStructureRecommendation ==
    (scan.op = "scan_ib" /\ scan.stage = "done" /\ scan.out.record)
        => LET front == scan.out.front_iv
               back == scan.out.back_iv
               rec == scan.out.recommendation
           IN  /\ rec \in {"RECOMMENDED", "CONSIDER", "AVOID"}
               /\ front <= back => rec = "AVOID"
               /\ front > back =>
                     /\ rec = "RECOMMENDED"
                           <=> (front > 6000 /\ scan.days_until <= 5
                                  /\ C20_PremiumOver(front, back, 10))
                     /\ rec = "CONSIDER"
                           <=> (/\ ~(front > 6000 /\ scan.days_until <= 5
                                        /\ C20_PremiumOver(front, back, 10))
                                /\ front > 5000 /\ scan.days_until <= 7
                                /\ C20_PremiumOver(front, back, 5))

\* a front IV of 70% three days before earnings, not above the back IV: AVOID
C20_Witness ==
    /\ scan.op = "scan_ib" /\ scan.stage = "done" /\ scan.out.record
    /\ scan.out.front_iv = 7000 /\ scan.out.back_iv = 7000 /\ scan.days_until = 3
    /\ scan.out.recommendation = "AVOID"

----------------------------------------------------------------------------
(* C14 *)

\* the day of a dated event
DayOf(e) == Strptime(e.date).day

\* the events of the ticker dated before today and within the lookback
C14_Past ==
    { e \in { scan.history[i] : i \in 1..Len(scan.history) } :
        /\ e.date # NoDate /\ ~Strptime(e.date).raised
        /\ DayOf(e) < scan.today
        /\ DayOf(e) >= scan.today - 730 }

\* the 6 most recent of them
C14_Recent == { e \in C14_Past : Cardinality({ x \in C14_Past : DayOf(x) > DayOf(e) }) < 6 }

\* C14: fetch_historical_gap_moves returns moves only for events dated
\* strictly before today and within the 730-day lookback, most recent first,
\* at most 6 of them, each for one of the 6 most recent past events.
C14_RecentPastMoves ==
    (scan.op = "gap_moves" /\ scan.stage = "done")
        => /\ Len(scan.out) <= 6
           /\ \A i \in 1..Len(scan.out) :
                 \E e \in C14_Recent :
                     scan.out[i].earnings_date = e.date /\ scan.out[i].hour = e.hour
           /\ \A i \in 1..Len(scan.out), j \in 1..Len(scan.out) :
                 i < j => scan.out[i].earnings_date > scan.out[j].earnings_date

\* the ticker has more than 6 past events; one of the 6 most recent gave no
\* move, and the move of an older one (2024-03-18, with bars) was not taken
\* in its place
C14_Witness ==
    /\ scan.op = "gap_moves" /\ scan.stage = "done"
    /\ Cardinality(C14_Past) > 6
    /\ Len(scan.out) = 5
    /\ Event(20240318, "bmo") \in C14_Past \ C14_Recent

----------------------------------------------------------------------------
(* C15 *)

\* the nearest day before / after `day` that has a bar
PriorTradingDay(day) ==
    CHOOSE d \in (day - 7)..(day - 1) :
        IsTradingDay(d) /\ \A x \in (d + 1)..(day - 1) : ~IsTradingDay(x)

NextTradingDay(day) ==
    CHOOSE d \in (day + 1)..(day + 7) :
        IsTradingDay(d) /\ \A x \in (day + 1)..(d - 1) : ~IsTradingDay(x)

\* C15: the move of a before-market event is |open(event day) - close(prior
\* trading day)| / close(prior trading day) and that of an after-market event
\* is |open(next trading day) - close(event day)| / close(event day), the
\* prior / next trading day being the nearest day with a bar, also when the
\* adjacent calendar day has none.
C15_GapOverTradingDays ==
    (scan.op = "gap_moves" /\ scan.stage = "done")
        => \A e \in C14_Recent :
             (IsTradingDay(DayOf(e)) /\ Lower(e.hour) \in {"bmo", "amc"})
                 => \E i \in 1..Len(scan.out) :
                        scan.out[i] =
                            HistoricalMove(e,
                                IF Lower(e.hour) = "bmo"
                                THEN MovePct(Bar(DayOf(e)).open,
                                             Bar(PriorTradingDay(DayOf(e))).close).pct
                                ELSE MovePct(Bar(NextTradingDay(DayOf(e))).open,
                                             Bar(DayOf(e)).close).pct)

----------------------------------------------------------------------------
(* C16 *)

\* C16: an event whose timing is unspecified gets the move |close(next
\* trading day) - close(event day)| / close(event day); when the event day
\* has no bar the event is dropped and the other moves are still returned.
C16_FallbackCloseToClose ==
    (scan.op = "gap_moves" /\ scan.stage = "done")
        => \A e \in C14_Recent :
             (Lower(e.hour) \notin {"bmo", "amc"})
                 => IF IsTradingDay(DayOf(e))
                    THEN \E i \in 1..Len(scan.out) :
                             scan.out[i] =
                                 HistoricalMove(e,
                                     MovePct(Bar(NextTradingDay(DayOf(e))).close,
                                             Bar(DayOf(e)).close).pct)
                    ELSE \A i \in 1..Len(scan.out) : scan.out[i].earnings_date # e.date

----------------------------------------------------------------------------
(* C17 *)

\* the history of the scanned ticker has a positive average / latest move
C17_AvgPositive == scan.hist # <<>> /\ SumPct(scan.hist) > 0
C17_LastPositive == scan.hist # <<>> /\ scan.hist[1] > 0

\* the implied move in hundredths of a percent, as a fraction of integers
C17_ImpliedNum == scan.out.implied_move_pct.num
C17_ImpliedDen == scan.out.implied_move_pct.den

\* x = n / d, for d > 0
C17_Is(x, n, d) == x # None /\ d > 0 /\ x.den > 0 /\ x.num * d = n * x.den

\* C17: ratio_avg = implied / realized_avg exactly when realized_avg is
\* positive, ratio_last = implied / realized_last exactly when realized_last
\* is positive, score = (realized_avg - implied) / implied exactly when
\* realized_avg is positive and implied > 0; otherwise the value is None, and
\* no division by zero occurs, also for an empty history or one of zero moves.
C17_RatiosAndScore ==
    (scan.op = "straddle" /\ scan.stage = "done")
        => /\ scan.out.skip # "ZeroDivisionError"
           /\ scan.out.record =>
                 /\ IF C17_AvgPositive
                    THEN C17_Is(scan.out.ratio_avg,
                                C17_ImpliedNum * Len(scan.hist),
                                C17_ImpliedDen * SumPct(scan.hist))
                    ELSE scan.out.ratio_avg = None
                 /\ IF C17_LastPositive
                    THEN C17_Is(scan.out.ratio_last,
                                C17_ImpliedNum, C17_ImpliedDen * scan.hist[1])
                    ELSE scan.out.ratio_last = None
                 /\ IF C17_AvgPositive /\ C17_ImpliedNum > 0
                    THEN C17_Is(scan.out.score,
                                SumPct(scan.hist) * C17_ImpliedDen
                                    - C17_ImpliedNum * Len(scan.hist),
                                C17_ImpliedNum * Len(scan.hist))
                    ELSE scan.out.score = None

\* a record made from a history whose latest move is zero and whose average
\* is not: ratio_last is None, ratio_avg and the score are numbers
C17_Witness ==
    /\ scan.op = "straddle" /\ scan.stage = "done" /\ scan.out.record
    /\ scan.hist # <<>> /\ scan.hist[1] = 0 /\ SumPct(scan.hist) > 0
    /\ scan.out.ratio_last = None
    /\ scan.out.ratio_avg # None /\ scan.out.score # None

----------------------------------------------------------------------------
(* C18 *)

\* both ratios, worked out from the inputs, are numbers
C18_BothDefined == C17_AvgPositive /\ C17_LastPositive

\* implied / realized_avg <= p / 100 and implied / realized_last <= p / 100
C18_AvgRatioAtMost(p) ==
    C17_ImpliedNum * Len(scan.hist) * 100 <= p * C17_ImpliedDen * SumPct(scan.hist)

C18_LastRatioAtMost(p) ==
    C17_ImpliedNum * 100 <= p * C17_ImpliedDen * scan.hist[1]

\* C18: the recommendation is CANDIDATE exactly when both ratios are defined
\* with ratio_avg <= 0.90 and ratio_last <= 0.95; otherwise WATCH when both
\* are defined and ratio_avg <= 1.00; otherwise PASS when both are defined;
\* WATCH when either ratio is undefined; and never another label.
C18_RecommendationOfRatios ==
    (scan.op = "straddle" /\ scan.stage = "done" /\ scan.out.record)
        => scan.out.recommendation =
               IF ~C18_BothDefined THEN "WATCH"
               ELSE IF C18_AvgRatioAtMost(90) /\ C18_LastRatioAtMost(95) THEN "CANDIDATE"
               ELSE IF C18_AvgRatioAtMost(100) THEN "WATCH"
               ELSE "PASS"

\* ratio_avg is at most 0.90 but ratio_last is over 0.95: WATCH
C18_Witness ==
    /\ scan.op = "straddle" /\ scan.stage = "done" /\ scan.out.record
    /\ C18_BothDefined
    /\ C18_AvgRatioAtMost(90) /\ ~C18_LastRatioAtMost(95)
    /\ scan.out.recommendation = "WATCH"

----------------------------------------------------------------------------
(* C19 *)

\* a record whose implied move is 8 %
C19_Implied8 ==
    /\ scan.op = "straddle" /\ scan.stage = "done" /\ scan.out.record
    /\ C17_ImpliedNum = 800 * C17_ImpliedDen

\* average realized move 6.4 %, latest 7.6 %
C19_Avg64Last76 ==
    scan.hist # <<>> /\ scan.hist[1] = 760 /\ SumPct(scan.hist) = 640 * Len(scan.hist)

\* average realized move 9 %, latest 9 %
C19_Avg9Last9 ==
    scan.hist # <<>> /\ scan.hist[1] = 900 /\ SumPct(scan.hist) = 900 * Len(scan.hist)

\* C19: with implied move 8 %, average realized move 6.4 % and last realized
\* move 7.6 % the recommendation is CANDIDATE, and with implied move 8 %,
\* average realized 9 % and last realized 9 % it is PASS.
C19_ExampleLabels ==
    /\ (C19_Implied8 /\ C19_Avg64Last76) => scan.out.recommendation = "CANDIDATE"
    /\ (C19_Implied8 /\ C19_Avg9Last9) => scan.out.recommendation = "PASS"

\* C19, amended: with implied move 8 %, average realized move 6.4 % and last
\* realized move 7.6 % the ratios are 1.25 and about 1.05 and the
\* recommendation is PASS; with implied move 8 %, average realized 9 % and
\* last realized 9 % both ratios are 8/9 and the recommendation is CANDIDATE.
C19_ExampleLabelsByRatio ==
    /\ (C19_Implied8 /\ C19_Avg64Last76)
          => /\ C17_Is(scan.out.ratio_avg, 125, 100)
             /\ C17_Is(scan.out.ratio_last, 800, 760)
             /\ scan.out.recommendation = "PASS"
    /\ (C19_Implied8 /\ C19_Avg9Last9)
          => /\ C17_Is(scan.out.ratio_avg, 8, 9)
             /\ C17_Is(scan.out.ratio_last, 8, 9)
             /\ scan.out.recommendation = "CANDIDATE"

\* the first example has been scored
C19_Witness == C19_Implied8 /\ C19_Avg64Last76 /\ scan.out.recommendation = "PASS"

----------------------------------------------------------------------------
(* C21 *)

\* the straddle scan has returned its list
C21_Returned == scan.op = "main_straddle" /\ scan.pc = "exited" /\ scan.written

\* C21: in the list run_scan returns, for positions i < j, if both
\* opportunities have a score then score[i] >= score[j], scores of 0 and
\* negative scores included, and an opportunity without a score never
\* precedes one with a score.
C21_SortedByScore ==
    C21_Returned
        => \A i, j \in 1..Len(scan.document) :
             i < j =>
                 /\ (scan.document[i].scored /\ scan.document[j].scored)
                       => scan.document[i].score >= scan.document[j].score
                 /\ scan.document[j].scored => scan.document[i].scored

----------------------------------------------------------------------------
(* C22 *)

\* the step is one pass of a scan loop
C22_Pass == scan.pc = "loop" /\ scan'.pc = "loop"

\* C22: when processing a ticker raises at any stage the loop goes on with
\* the next ticker, the opportunities appended before are still in the list,
\* unchanged, and the failing ticker adds no record; later tickers are
\* processed, the run ending only after the last one.
C22_FailureIsolated ==
    [][ /\ C22_Pass =>
            /\ scan'.next = scan.next + 1
            /\ Len(scan'.opportunities) >= Len(scan.opportunities)
            /\ SubSeq(scan'.opportunities, 1, Len(scan.opportunities)) = scan.opportunities
            /\ scan.candidates[scan.next].raises \notin {"none", "iv_calc"}
                  => scan'.opportunities = scan.opportunities
        /\ (scan.pc = "loop" /\ scan'.pc = "exited")
              => /\ scan.next = Len(scan.candidates) + 1
                 /\ scan'.exit = 0
                 /\ \A i \in 1..Len(scan.opportunities) :
                       \E j \in 1..Len(scan'.document) :
                           scan'.document[j] = scan.opportunities[i]
      ]_vars

\* a run that made a record, then met a ticker whose request raised, then
\* made another record, and returned both
C22_Witness ==
    /\ scan.pc = "exited" /\ scan.written
    /\ Len(scan.candidates) = 3
    /\ scan.candidates[1].raises = "none"
    /\ scan.candidates[2].raises \in {"price", "call_quote", "front_quote", "history"}
    /\ scan.candidates[3].raises = "none"
    /\ Len(scan.document) = 2

----------------------------------------------------------------------------
(* C23 *)

\* C23: when the earnings-provider token is absent the run fails before any
\* scanning: no ticker is looked up, no pass of the loop is made and no
\* subscription requested, no result document is written, and the process
\* ends with a failure status.
C23_NoTokenFailsFirst ==
    (scan.op \in {"main_straddle", "main_ib"} /\ ~scan.token)
        => /\ scan.lookups = 0
           /\ scan.next = 1 /\ scan.open = {}
           /\ ~scan.written
           /\ scan.pc = "exited" => scan.exit # 0

----------------------------------------------------------------------------
(* C24 *)

\* C24: an opportunity record is built only from values received: a ticker
\* whose stock price, option mid or option implied volatility is absent gets
\* no record, and the record's IVs (hence its slope and recommendation) are
\* the ones received, never a substituted default.
C24_OnlyReceivedValues ==
    /\ (scan.op = "scan_ib" /\ scan.stage = "done" /\ scan.out.record)
          => /\ scan.price > 0 /\ scan.front_price > 0 /\ scan.back_price > 0
             /\ scan.front_iv > 0 /\ scan.back_iv > 0
             /\ scan.out.front_iv = scan.front_iv
             /\ scan.out.back_iv = scan.back_iv
    /\ (scan.op = "straddle" /\ scan.stage = "done" /\ scan.out.record)
          => /\ scan.price > 0
             /\ get_option_quote(scan.call).mid # None
             /\ get_option_quote(scan.put).mid # None

----------------------------------------------------------------------------
(* C25 *)

\* C25: every subscription requested for an instrument is released before
\* the scan moves on to the next instrument or ticker, also when reading the
\* snapshot raises, so none is open between two passes of the loop or at the
\* end of the scan.
C25_SubscriptionsReleased ==
    scan.op \in {"main_straddle", "main_ib"} => scan.open = {}

----------------------------------------------------------------------------
(* C26 *)

\* a quote field is present: neither absent, zero nor negative
C26_Present(x) == x.kind = "num" /\ x.v > 0

\* x is the number n / d
C26_Is(x, n, d) == x # None /\ x.num * d = n * x.den

\* the mid of the claim for the snapshot scanned
C26_IsTheMid(mid) ==
    IF C26_Present(scan.bid) /\ C26_Present(scan.ask)
    THEN C26_Is(mid, scan.bid.v + scan.ask.v, 2)
    ELSE IF C26_Present(scan.last) THEN C26_Is(mid, scan.last.v, 1)
    ELSE IF C26_Present(scan.bid) THEN C26_Is(mid, scan.bid.v, 1)
    ELSE IF C26_Present(scan.ask) THEN C26_Is(mid, scan.ask.v, 1)
    ELSE mid = None

\* C26: for every bid, ask and last, an absent, zero or negative value
\* counting as not present, the mid is (bid + ask) / 2 when both sides are
\* present, else last, else bid, else ask, else undefined, and the two
\* scanners' quote functions compute the same mid.
C26_SameMid ==
    (scan.op = "mid" /\ scan.stage = "done")
        => /\ C26_IsTheMid(scan.out.get_option_quote)
           /\ C26_IsTheMid(scan.out.get_option_price_and_iv)
           /\ scan.out.get_option_quote = scan.out.get_option_price_and_iv

\* a snapshot with a negative bid, an ask and a last price: the mid is the
\* last price in both
C26_Witness ==
    /\ scan.op = "mid" /\ scan.stage = "done"
    /\ scan.bid = Num(0 - 100) /\ scan.ask = Num(410) /\ scan.last = Num(405)
    /\ scan.out.get_option_quote = Rat(405, 1)
    /\ scan.out.get_option_price_and_iv = Rat(405, 1)

----------------------------------------------------------------------------
(* C27 *)

\* both processes have finished
C27_BothFinished == scan.op = "race" /\ \A i \in Procs : scan.procs[i].pc = "done"

\* the store process i saved: what it loaded, with its own entry
C27_StoreOf(i) ==
    LET pr == scan.procs[i]
    IN  Put(pr.loaded, ProcKey(pr), NewEntry(pr.t, fetch_earnings_calendar(pr.resp).data))

\* C27: when two processes run fetch_earnings_calendar_cached on one file
\* with interleaved load, fetch and save steps, the file after both finish
\* is the whole store of the process that wrote last, and each process that
\* fetched returns its own fetched list.
C27_LastWriterWins ==
    C27_BothFinished
        => /\ scan.writers # <<>>
                 => file = StoreFile(C27_StoreOf(scan.writers[Len(scan.writers)]))
           /\ \A i \in Procs :
                 scan.procs[i].fetched
                     => /\ scan.procs[i].returned
                        /\ scan.procs[i].result = fetch_earnings_calendar(scan.procs[i].resp).data

\* both fetched and saved, and the entry the first writer saved is missing
\* from the file
C27_Witness ==
    /\ C27_BothFinished
    /\ scan.writers = <<1, 2>>
    /\ scan.procs[1].saved /\ scan.procs[2].saved
    /\ ProcKey(scan.procs[1]) \notin DOMAIN file.entries
    /\ ProcKey(scan.procs[2]) \in DOMAIN file.entries
    /\ scan.procs[1].result = <<Event(5, "bmo"), Event(3, "amc")>>
    /\ scan.procs[2].result = <<Event(6, "amc")>>

----------------------------------------------------------------------------
(* C28 *)

\* the latest lookup asked the provider, got an answer and wrote the file
C28_Fetched ==
    last.op # "none" /\ last.provider_calls = 1 /\ ~last.raised /\ last.saved

\* C28: after a fetch_earnings_calendar_cached call that fetched from the
\* provider, the store holds an entry for the requested key, whatever the
\* store held before: the pruning of that call never removes the entry the
\* call wrote.
C28_NewEntryKept ==
    C28_Fetched
        => _cache_key(last.symbol, last.from_date, last.to_date) \in DOMAIN file.entries

----------------------------------------------------------------------------
(* C29 *)

\* the opportunity records run_scan has produced
C29_Records ==
    IF scan.op = "main_straddle"
    THEN { scan.opportunities[j] : j \in 1..Len(scan.opportunities) }
    ELSE {}

\* a CANDIDATE has a score above 0, and a record without a score is a WATCH
C29_CandidateAndUnscored(o) ==
    /\ o.recommendation = "CANDIDATE" => (o.scored /\ o.score > 0)
    /\ ~o.scored => o.recommendation = "WATCH"

\* C29 as stated: in every opportunity record of run_scan a CANDIDATE has a
\* defined score greater than 0, a PASS has a defined score less than 0, and
\* a record with an undefined score is a WATCH.
C29_ScoreAgreesWithLabel ==
    \A o \in C29_Records :
        /\ C29_CandidateAndUnscored(o)
        /\ o.recommendation = "PASS" => (o.scored /\ o.score < 0)

\* C29, amended: in every opportunity record of run_scan a CANDIDATE has a
\* defined score greater than 0, a PASS has a defined score that is not
\* greater than 0 (the record holds the score rounded to three decimals, so
\* a PASS whose implied move is within 0.05% of the average realized move
\* has score 0), and a record with an undefined score is a WATCH.
C29_ScoreAgreesToRounding ==
    \A o \in C29_Records :
        /\ C29_CandidateAndUnscored(o)
        /\ o.recommendation = "PASS" => (o.scored /\ o.score <= 0)

\* a scan that recorded a PASS with score 0, a PASS with a negative score, a
\* CANDIDATE, or a record without a score
C29_Witness ==
    /\ \E o \in C29_Records : o.recommendation = "PASS" /\ o.scored /\ o.score = 0
    /\ \E o \in C29_Records : o.recommendation = "PASS" /\ o.scored /\ o.score < 0
    /\ \E o \in C29_Records : o.recommendation = "CANDIDATE" \/ ~o.scored

----------------------------------------------------------------------------
(* C30 *)

\* C30: in the term-structure scan the front (sold) leg of every opportunity
\* record is an expiration on or after the earnings date: sell_dte >=
\* days_to_earnings (the record's front_dte and the ticker's days_until), so
\* the front option never expires before the announcement.
C30_FrontAfterEarnings ==
    (scan.op = "scan_ib" /\ scan.stage = "done" /\ scan.out.record)
        => scan.out.front_dte >= scan.days_until

====
